---- MODULE Spec2Model ----
(***************************************************************************)
(* The intersection controller of traffic_light_model: twelve movement     *)
(* signals (origin x direction), their queue counts, and the per-tick      *)
(* admission pass of TrafficLightController::update.                       *)
(*                                                                         *)
(* Durations are in milliseconds.                                          *)
(*                                                                         *)
(* The controller (traffic_light_controller.rs) is translated from its     *)
(* source.  The per-movement signal it drives (TrafficLight::new(origin,   *)
(* direction), .state, .intersecting_lights, update(queue_len),            *)
(* can_change_to_red, change_to_green) is not the per-origin light of      *)
(* traffic_light.rs; those definitions follow the design document's        *)
(* movement-signal state machine and are marked so in the model map.       *)
(*                                                                         *)
(* The per-origin light that traffic_light.rs does hold (one green origin  *)
(* at a time, phase_start / red_start, should_switch_phase) is translated  *)
(* from its source as a second state machine, LightSpec.                   *)
(***************************************************************************)
EXTENDS Integers, Sequences, FiniteSets, TLC

VARIABLES
    traffic_lights,         \* TrafficLightController.traffic_lights (Vec<TrafficLight>)
    queue,                  \* TrafficLightController.queue (HashMap<SimplifiedCar, usize>)
    traffic,                \* the environment of this run: where cars arrive, how
                            \* much time passes between two calls of update
    net_cars,               \* history: add_car calls minus remove_car calls, per movement
    aborted,                \* the process has panicked
    traffic_light,          \* the TrafficLight of traffic_light.rs
    paused,                 \* main.rs: let mut paused
    last_paused,            \* main.rs: last_paused.elapsed(), while paused
    answer,                 \* the last query of the controller and what it returned
    lights_to_make_green,   \* update: let mut lights_to_make_green, inside the
                            \* resolution loop; <<>> outside it
    scan_index,             \* update: let mut i of the resolution loop, counted
                            \* from 1; 0 outside the loop
    cars                    \* main.rs: let mut cars (Vec<Car>)

vars == <<traffic_lights, queue, traffic, net_cars, aborted, traffic_light,
          paused, last_paused, answer, lights_to_make_green, scan_index, cars>>

----------------------------------------------------------------------------
(* Program constants *)

\* main.rs: pub const YELLOW_TIME: Duration = Duration::from_millis(1500)
YELLOW_TIME == 1500

\* main.rs: pub const MINIMUM_GREEN_TIME: Duration = Duration::from_millis(200)
MINIMUM_GREEN_TIME == 200

\* traffic_light.rs, TrafficLight::new: red_clearance_time: Duration::from_secs(2)
red_clearance_time == 2000

\* traffic_light.rs, TrafficLight::new: yellow_time: Duration::from_secs_f64(1.5)
yellow_time == 1500

\* traffic_light.rs, TrafficLight::new: minimum_green_time: Duration::from_secs_f64(2.2)
minimum_green_time == 2200

\* traffic_light.rs, calculate_entry_time: Duration::from_secs(100) when the two
\* paths do not intersect
no_intersection_entry_time == 100000

\* usize::MAX, the largest count of the queue map; the model's integers have 32
\* bits, so the largest of them stands for it
usize_MAX == 2147483647

----------------------------------------------------------------------------
(* Bounds *)

\* add_car is not called on a movement that already holds MaxQueue cars
MaxPairQueue == 8
MaxPause == 3000
MaxQueue == 2

\* the shortest time between two calls of update
FrameStep == 100

\* a conflict-table duration is YELLOW_TIME plus 0 or ExtraClearance
ExtraClearance == 100

\* the entry time calculate_entry_time finds for two paths that intersect
EntryTime == 500

----------------------------------------------------------------------------
(* Movements *)

Origins == <<"North", "South", "East", "West">>

Directions == <<"Left", "Straight", "Right">>

\* SimplifiedCar::new(origin, direction); also the key (origin, direction) of a
\* conflict table
SimplifiedCar(origin, direction) == <<origin, direction>>

\* variant: the inner loop runs over two directions, six times
generate_traffic_lights_TwoDirections ==
    [k \in 1..(Len(Origins) * Len(Directions)) |->
        SimplifiedCar(Origins[((k - 1) \div Len(Directions)) + 1],
                      Directions[((k - 1) % 2) + 1])]

\* generate_traffic_lights: the (origin, direction) of each light, in push order
generate_traffic_lights ==
    [k \in 1..(Len(Origins) * Len(Directions)) |->
        SimplifiedCar(Origins[((k - 1) \div Len(Directions)) + 1],
                      Directions[((k - 1) % Len(Directions)) + 1])]

Lights == DOMAIN generate_traffic_lights

Movements == {generate_traffic_lights[k] : k \in Lights}

\* generate_queue: every movement starts with count 0
generate_queue == [m \in Movements |-> 0]

\* variant: the direction index follows the order of the enum (Left, Right,
\* Straight)
get_traffic_light_EnumOrder(origin, direction) ==
    LET origin_index == CASE origin = "North" -> 0
                          [] origin = "South" -> 3
                          [] origin = "East"  -> 6
                          [] origin = "West"  -> 9
        direction_index == CASE direction = "Left"     -> 0
                             [] direction = "Right"    -> 1
                             [] direction = "Straight" -> 2
    IN  origin_index + direction_index + 1

\* get_traffic_light: the index arithmetic (0-based in the source, 1-based here)
get_traffic_light(origin, direction) ==
    LET origin_index == CASE origin = "North" -> 0
                          [] origin = "South" -> 3
                          [] origin = "East"  -> 6
                          [] origin = "West"  -> 9
        direction_index == CASE direction = "Left"     -> 0
                             [] direction = "Straight" -> 1
                             [] direction = "Right"    -> 2
    IN  origin_index + direction_index + 1

----------------------------------------------------------------------------
(* Small helpers *)

Max(S) == CHOOSE x \in S : \A y \in S : y <= x

Min(S) == CHOOSE x \in S : \A y \in S : x <= y

RECURSIVE SumOver(_, _)
SumOver(f, S) ==
    IF S = {} THEN 0
    ELSE LET x == CHOOSE y \in S : TRUE
         IN  f[x] + SumOver(f, S \ {x})

\* Vec::remove(index): the elements after index shift left
Remove(list, index) ==
    [k \in 1..(Len(list) - 1) |-> IF k < index THEN list[k] ELSE list[k + 1]]

----------------------------------------------------------------------------
(* The movement signal *)

(* A signal's three timestamps (green_start, red_start, the instant its request  *)
(* was armed) are only ever read through elapsed(), and elapsed() is only ever   *)
(* compared with a duration.  The model therefore keeps, for each timestamp, the *)
(* time elapsed since it, and stops counting at the largest duration it is       *)
(* compared with: beyond that every comparison has the same result.              *)

\* the largest duration a conflict table holds
MaxDelay == YELLOW_TIME + ExtraClearance

\* A signal as constructed: Red, nothing armed, both timestamps at construction
TrafficLight_new(origin, direction, table) ==
    [ origin                 |-> origin,
      direction              |-> direction,
      state                  |-> "Red",
      intersecting_lights    |-> table,
      green_elapsed          |-> 0,
      red_elapsed            |-> 0,
      armed                  |-> FALSE,
      armed_elapsed          |-> 0,
      scheduled_green_delay  |-> 0 ]

\* dt passes: the elapsed times grow by dt.  red_start is read in Yellow only and
\* the arming instant while a request is armed only; both are set anew before
\* they are read again, so their elapsed times are kept at 0 meanwhile
pass_time(light, dt) ==
    [light EXCEPT !.green_elapsed = IF @ + dt > MINIMUM_GREEN_TIME
                                    THEN MINIMUM_GREEN_TIME ELSE @ + dt,
                  !.red_elapsed   = IF light.state # "Yellow" THEN 0
                                    ELSE IF @ + dt > YELLOW_TIME
                                    THEN YELLOW_TIME ELSE @ + dt,
                  !.armed_elapsed = IF ~light.armed THEN 0
                                    ELSE IF @ + dt > MaxDelay
                                    THEN MaxDelay ELSE @ + dt]

\* minimum green has elapsed since green_start
minimum_green_elapsed(light) == light.green_elapsed >= MINIMUM_GREEN_TIME

\* the armed request's delay has elapsed since it was armed
scheduled_green_due(light) == light.armed_elapsed >= light.scheduled_green_delay

\* yellow has lasted yellow_duration since red_start
yellow_elapsed(light) == light.red_elapsed >= YELLOW_TIME

\* TrafficLight::update(queue_length): one transition at most
TrafficLight_update(light, queue_length) ==
    CASE light.state = "Red" /\ light.armed /\ scheduled_green_due(light) ->
            [light EXCEPT !.state = "Green", !.green_elapsed = 0, !.armed = FALSE,
                          !.armed_elapsed = 0, !.scheduled_green_delay = 0]
      [] light.state = "Green" /\ minimum_green_elapsed(light) /\ queue_length = 0 ->
            [light EXCEPT !.state = "Yellow", !.red_elapsed = 0]
      [] light.state = "Yellow" /\ yellow_elapsed(light) ->
            [light EXCEPT !.state = "Red", !.red_elapsed = 0]
      [] OTHER -> light

\* TrafficLight::can_change_to_red
can_change_to_red(light) == minimum_green_elapsed(light) /\ ~light.armed

\* TrafficLight::change_to_green(delay): arms the Red -> Green request; a signal
\* has one pending request at most
change_to_green(light, delay) ==
    IF light.state = "Red" /\ ~light.armed
    THEN [light EXCEPT !.armed = TRUE, !.armed_elapsed = 0,
                       !.scheduled_green_delay = delay]
    ELSE light

----------------------------------------------------------------------------
(* TrafficLightController::update, step by step *)

\* self.queue(origin, direction)
queue_of(q, origin, direction) == q[SimplifiedCar(origin, direction)]

\* let queue_lengths: Vec<usize> = ... (lines 36-40)
queue_lengths_of(lights, q) ==
    [i \in DOMAIN lights |-> queue_of(q, lights[i].origin, lights[i].direction)]

\* variant: a Yellow light is updated only while cars wait for it
update_lights_BusyYellow(lights, lengths) ==
    [i \in DOMAIN lights |->
        IF lights[i].state = "Yellow" /\ lengths[i] = 0 THEN lights[i]
        ELSE TrafficLight_update(lights[i], lengths[i])]

\* variant: every light is updated as if its queue were empty
update_lights_NoQueue(lights, lengths) ==
    [i \in DOMAIN lights |-> TrafficLight_update(lights[i], 0)]

\* variant: a light whose queue is empty is not updated
update_lights_SkipEmpty(lights, lengths) ==
    [i \in DOMAIN lights |->
        IF lengths[i] = 0 THEN lights[i] ELSE TrafficLight_update(lights[i], lengths[i])]

\* for (i, traffic_light) in ... { traffic_light.update(queue_lengths[i]) } (lines 41-43)
update_lights(lights, lengths) ==
    [i \in DOMAIN lights |-> TrafficLight_update(lights[i], lengths[i])]

\* the light a conflict-table key names
peer(lights, key) == lights[get_traffic_light(key[1], key[2])]

\* variant: only the keys whose light is not Red are asked
can_change_GreenOnly(lights, i) ==
    \A key \in {k \in DOMAIN lights[i].intersecting_lights : peer(lights, k).state # "Red"} :
        can_change_to_red(peer(lights, key))

\* variant: no key is asked whether its light can change to red
can_change_Always(lights, i) == TRUE

\* can_change after the loop over intersecting_lights.keys() (lines 59-66): false
\* as soon as one key's light cannot change to red
can_change(lights, i) ==
    \A key \in DOMAIN lights[i].intersecting_lights :
        can_change_to_red(peer(lights, key))

\* the keys whose light is not Red (line 69)
green_peers(lights, i) ==
    {key \in DOMAIN lights[i].intersecting_lights : peer(lights, key).state # "Red"}

\* variant: the queues of all the keys are added, whatever the state of their light
total_queue_length_AllKeys(lights, q, i) ==
    SumOver([key \in Movements |-> queue_of(q, key[1], key[2])],
            DOMAIN lights[i].intersecting_lights)

\* total_queue_length after the loop (lines 57, 70)
total_queue_length(lights, q, i) ==
    SumOver([key \in Movements |-> queue_of(q, key[1], key[2])], green_peers(lights, i))

\* variant: the maximum is taken over every key, whatever the state of its light
max_delay_AllKeys(lights, i) ==
    Max({0} \cup {lights[i].intersecting_lights[key] :
                     key \in DOMAIN lights[i].intersecting_lights})

\* max_delay after the loop (lines 58, 71-73)
max_delay(lights, i) ==
    Max({0} \cup {lights[i].intersecting_lights[key] : key \in green_peers(lights, i)})

\* variant: a queue equal to the competing total is enough
is_pushed_Ties(lights, q, lengths, i) ==
    /\ ~(lengths[i] = 0)
    /\ ~(lengths[i] < total_queue_length(lights, q, i) \/ ~can_change(lights, i))

\* variant: can_change is not consulted
is_pushed_NoBlock(lights, q, lengths, i) ==
    /\ ~(lengths[i] = 0)
    /\ ~(lengths[i] <= total_queue_length(lights, q, i))

\* variant: the queue must exceed the competing total by two
is_pushed_ByTwo(lights, q, lengths, i) ==
    /\ ~(lengths[i] = 0)
    /\ ~(lengths[i] <= total_queue_length(lights, q, i) + 1 \/ ~can_change(lights, i))

\* light i is pushed on lights_to_make_green (lines 53-55, 76-83)
is_pushed(lights, q, lengths, i) ==
    /\ ~(lengths[i] = 0)
    /\ ~(lengths[i] <= total_queue_length(lights, q, i) \/ ~can_change(lights, i))

\* the eligibility loop (lines 51-84): tuples (index, queue length, max_delay), in
\* index order
RECURSIVE collect(_, _, _, _)
collect(lights, q, lengths, i) ==
    IF i > Len(lights) THEN <<>>
    ELSE (IF is_pushed(lights, q, lengths, i)
          THEN << <<i, lengths[i], max_delay(lights, i)>> >>
          ELSE <<>>)
         \o collect(lights, q, lengths, i + 1)

\* variant: any two entries of the list are taken to conflict
in_conflict_AnyOther(lights, list, i, k) == k # i

\* variant: the key looked up is that of the entry at i itself
in_conflict_OwnKey(lights, list, i, k) ==
    SimplifiedCar(lights[list[i][1]].origin, lights[list[i][1]].direction)
        \in DOMAIN lights[list[i][1]].intersecting_lights

\* the entry at position k of the list is a key of the table of the entry at i
\* (lines 104-109, negated)
in_conflict(lights, list, i, k) ==
    SimplifiedCar(lights[list[k][1]].origin, lights[list[k][1]].direction)
        \in DOMAIN lights[list[i][1]].intersecting_lights

\* variant: on equal queues and equal delays the entry at i goes
pair_loser_TieDropsScanned(list, lengths, i, other_index) ==
    IF lengths[list[i][1]] < list[other_index][2] THEN i
    ELSE IF lengths[list[i][1]] > list[other_index][2] THEN other_index
    ELSE IF list[i][3] >= list[other_index][3] THEN i
    ELSE other_index

\* variant: the entry with the longer queue goes
pair_loser_LongerQueue(list, lengths, i, other_index) ==
    IF lengths[list[i][1]] > list[other_index][2] THEN i
    ELSE IF lengths[list[i][1]] < list[other_index][2] THEN other_index
    ELSE IF list[i][3] > list[other_index][3] THEN i
    ELSE other_index

\* variant: on equal queues the entry with the smaller delay goes
pair_loser_ShortestWait(list, lengths, i, other_index) ==
    IF lengths[list[i][1]] < list[other_index][2] THEN i
    ELSE IF lengths[list[i][1]] > list[other_index][2] THEN other_index
    ELSE IF list[i][3] < list[other_index][3] THEN i
    ELSE other_index

\* light_to_remove for the entry at i against the entry at other_index (lines 111-127)
pair_loser(list, lengths, i, other_index) ==
    IF lengths[list[i][1]] < list[other_index][2] THEN i
    ELSE IF lengths[list[i][1]] > list[other_index][2] THEN other_index
    ELSE IF list[i][3] > list[other_index][3] THEN i
    ELSE other_index

\* variant: a comparison removes both entries of the pair
loop_iteration_DropsBoth(lights, lengths, list, i) ==
    LET hits == {k \in 1..Len(list) : in_conflict(lights, list, i, k)}
    IN  IF hits = {}
        THEN <<list, i + 1>>
        ELSE <<SelectSeq(list, LAMBDA e : e # list[i] /\ e # list[Min(hits)]), 1>>

\* one pass through the body of the resolution loop with the scan at position
\* i <= Len(list) (lines 90-136): the list and the scan index it leaves. The
\* inner loop stops at the first entry in conflict with the entry at i
\* (break, line 129); its loser is removed and the scan restarts (lines
\* 132-134), and without a conflict the scan moves on (line 136)
loop_iteration(lights, lengths, list, i) ==
    LET hits == {k \in 1..Len(list) : in_conflict(lights, list, i, k)}
    IN  IF hits = {}
        THEN <<list, i + 1>>
        ELSE <<Remove(list, pair_loser(list, lengths, i, Min(hits))), 1>>

\* the resolution loop (lines 89-137): it is left when the scan has passed the
\* last entry (lines 90-92)
RECURSIVE resolution_loop(_, _, _, _)
resolution_loop(lights, lengths, list, i) ==
    IF i > Len(list) THEN list
    ELSE LET next == loop_iteration(lights, lengths, list, i)
         IN  resolution_loop(lights, lengths, next[1], next[2])

\* variant: a listed light gets a new request, whatever it holds already
arm_lights_Rearm(lights, list) ==
    [i \in DOMAIN lights |->
        IF \E k \in 1..Len(list) : list[k][1] = i
        THEN LET k == CHOOSE k \in 1..Len(list) : list[k][1] = i
             IN  [lights[i] EXCEPT !.armed = TRUE, !.armed_elapsed = 0,
                                   !.scheduled_green_delay = list[k][3]]
        ELSE lights[i]]

\* variant: a listed light with nothing to wait for is made Green, the others
\* are armed
arm_lights_ZeroDelayNow(lights, list) ==
    [i \in DOMAIN lights |->
        IF \E k \in 1..Len(list) : list[k][1] = i
        THEN LET k == CHOOSE k \in 1..Len(list) : list[k][1] = i
             IN  IF list[k][3] = 0 /\ lights[i].state # "Green"
                 THEN [lights[i] EXCEPT !.state = "Green", !.green_elapsed = 0]
                 ELSE change_to_green(lights[i], list[k][3])
        ELSE lights[i]]

\* variant: a listed light is made Green at once
arm_lights_AtOnce(lights, list) ==
    [i \in DOMAIN lights |->
        IF \E k \in 1..Len(list) : list[k][1] = i
        THEN [lights[i] EXCEPT !.state = "Green", !.green_elapsed = 0]
        ELSE lights[i]]

\* for light in lights_to_make_green { ...change_to_green(light.2) } (lines 139-141)
arm_lights(lights, list) ==
    [i \in DOMAIN lights |->
        IF \E k \in 1..Len(list) : list[k][1] = i
        THEN LET k == CHOOSE k \in 1..Len(list) : list[k][1] = i
             IN  change_to_green(lights[i], list[k][3])
        ELSE lights[i]]

----------------------------------------------------------------------------
(* The per-origin light of traffic_light.rs *)

(* phase_start and red_start are kept as the time elapsed since them, counted   *)
(* up to the largest duration they are compared with.  last_went, green_time    *)
(* and last_intersection_obstruction are never read by update, add_car or       *)
(* remove_car and are left out.                                                 *)

OriginSet == {Origins[k] : k \in DOMAIN Origins}

\* Option::None of an origin
None == "None"

\* variant: East and West turn the other way
right_EastWestSwapped(origin) ==
    CASE origin = "North" -> "East"
      [] origin = "South" -> "West"
      [] origin = "East"  -> "North"
      [] origin = "West"  -> "South"

\* Origin::right
right(origin) ==
    CASE origin = "North" -> "East"
      [] origin = "South" -> "West"
      [] origin = "East"  -> "South"
      [] origin = "West"  -> "North"

\* Origin::left
left(origin) ==
    CASE origin = "North" -> "West"
      [] origin = "South" -> "East"
      [] origin = "East"  -> "North"
      [] origin = "West"  -> "South"

\* calculate_red_clearance_time: distance_covered / speed * frame_duration in whole
\* milliseconds, with LANE_WIDTH = 49.5 and MAX_SPEED = 5.0
clearance_time(direction) ==
    CASE direction = "Straight" -> 660
      [] direction = "Left"     -> 777
      [] direction = "Right"    -> 259

\* the largest duration red_start.elapsed() is compared with
MaxRedClearance ==
    Max({red_clearance_time, yellow_time}
            \union {clearance_time(Directions[k]) + yellow_time : k \in DOMAIN Directions})

\* TrafficLight::new()
Light_new ==
    [queue              |-> [o \in OriginSet |-> <<>>],
     latest_car         |-> <<>>,
     start              |-> TRUE,
     green              |-> None,
     next_green         |-> None,
     red_clearance_time |-> red_clearance_time,
     entry_time         |-> 0,
     phase_elapsed      |-> 0,
     red_elapsed        |-> 0,
     should_switch      |-> FALSE,
     past_green         |-> None]

\* dt passes
Light_pass_time(light, dt) ==
    [light EXCEPT !.phase_elapsed = Min({@ + dt, minimum_green_time}),
                  !.red_elapsed   = Min({@ + dt, MaxRedClearance})]

\* the number of cars at the head of a queue that turn right
leading_rights(waiting) ==
    Min({k \in 1..(Len(waiting) + 1) :
            k = Len(waiting) + 1 \/ waiting[k][2] # "Right"}) - 1

\* TrafficLight::current_queue
current_queue(light) ==
    IF light.green # None
    THEN Len(light.queue[light.green]) + leading_rights(light.queue[right(light.green)])
    ELSE 0

\* TrafficLight::longest_queue: right turns at the head of a queue count for the
\* origin on their left; max_by returns the last maximum in the iteration order
\* of the HashMap
longest_queue(light, order) ==
    LET queue_lengths == [o \in OriginSet |->
                             Len(light.queue[o]) + leading_rights(light.queue[right(o)])]
        highest == Max({queue_lengths[o] : o \in OriginSet})
        last    == Max({k \in DOMAIN order : queue_lengths[order[k]] = highest})
    IN  <<order[last], highest>>

\* TrafficLight::should_switch_phase
should_switch_phase(light) ==
    /\ ~light.should_switch
    /\ (light.phase_elapsed >= minimum_green_time \/ current_queue(light) = 0)

\* TrafficLight::calculate_red_clearance_time
calculate_red_clearance_time(light, direction) ==
    [light EXCEPT !.red_clearance_time =
        Max({0, clearance_time(direction) - light.entry_time + yellow_time})]

\* TrafficLight::calculate_clearance_time; entry is what calculate_entry_time
\* finds for the latest car and the first car waiting at next_green
calculate_clearance_time(light, entry) ==
    IF light.latest_car # <<>>
    THEN LET waiting == /\ light.next_green # None
                        /\ light.queue[light.next_green] # <<>>
             timed   == IF waiting THEN [light EXCEPT !.entry_time = entry] ELSE light
         IN  calculate_red_clearance_time(timed, light.latest_car[2])
    ELSE light

\* TrafficLight::update
Light_update(light, order, entry) ==
    LET switch ==
            IF /\ should_switch_phase(light)
               /\ longest_queue(light, order)[2] >= (current_queue(light) * 175) \div 100
            THEN calculate_clearance_time(
                     [light EXCEPT !.should_switch = TRUE,
                                   !.red_elapsed   = 0,
                                   !.past_green    = light.green,
                                   !.green         = None,
                                   !.next_green    = longest_queue(light, order)[1]],
                     entry)
            ELSE light
        again ==
            IF /\ switch.should_switch
               /\ switch.red_elapsed >= yellow_time
               /\ switch.past_green # None
               /\ longest_queue(switch, order)[1] = switch.past_green
            THEN [switch EXCEPT !.should_switch = FALSE,
                                !.phase_elapsed = 0,
                                !.green         = switch.past_green,
                                !.next_green    = None]
            ELSE switch
    IN  IF again.should_switch /\ again.red_elapsed >= again.red_clearance_time
        THEN [again EXCEPT !.phase_elapsed = 0,
                           !.green         = again.next_green,
                           !.next_green    = None,
                           !.should_switch = FALSE]
        ELSE again

\* TrafficLight::add_car
Light_add_car(light, car) ==
    LET pushed == [light EXCEPT !.queue[car[1]] = Append(@, car)]
    IN  IF light.start
        THEN [pushed EXCEPT !.green = car[1], !.phase_elapsed = 0, !.start = FALSE]
        ELSE pushed

\* TrafficLight::remove_car on an origin whose queue holds a car
Light_remove_car(light, origin, direction, entry) ==
    LET removed == [light EXCEPT !.queue[origin] = Tail(@)]
    IN  IF /\ \/ (light.green # None /\ origin # light.green)
              \/ (light.green = None /\ light.past_green # None
                                     /\ origin # light.past_green)
           /\ direction = "Right"
        THEN removed
        ELSE calculate_clearance_time(
                 [removed EXCEPT !.latest_car = SimplifiedCar(origin, direction)], entry)

\* what calculate_entry_time can yield
EntryTimes == {EntryTime, no_intersection_entry_time}

----------------------------------------------------------------------------
(* The conflict tables and the traffic of a run *)

\* the durations a conflict table may hold: never below the yellow duration
Durations == {YELLOW_TIME, YELLOW_TIME + ExtraClearance}

\* the conflict relations among the movements of S: M' is a key of M's table iff
\* M is a key of the table of M' (two paths cross or they do not), and no movement
\* is a key of its own table
ConflictRelations(S) ==
    {R \in SUBSET {pr \in S \X S : pr[1] # pr[2]} :
        \A pr \in R : <<pr[2], pr[1]>> \in R}

\* the table of movement m under relation R with durations d
table_of(R, d, m) == [key \in {k \in Movements : <<m, k>> \in R} |-> d[<<m, key>>]]

\* two movements, ticks a frame step or a yellow duration apart
PairArrivals == {SimplifiedCar("North", "Straight"), SimplifiedCar("East", "Left")}

PairTraffic ==
    [arrivals |-> PairArrivals, steps |-> {FrameStep, YELLOW_TIME},
     overflow_checks |-> TRUE]

\* the same traffic in a build without overflow checks (cargo's release profile)
ReleaseTraffic == [PairTraffic EXCEPT !.overflow_checks = FALSE]

\* three movements, of which the first and the last may both conflict with the
\* middle one and not with each other; ticks a yellow duration apart
ChainArrivals == {SimplifiedCar("North", "Right"), SimplifiedCar("South", "Straight"),
                  SimplifiedCar("East", "Straight")}

ChainRelation ==
    {<<SimplifiedCar("North", "Right"), SimplifiedCar("East", "Straight")>>,
     <<SimplifiedCar("East", "Straight"), SimplifiedCar("North", "Right")>>,
     <<SimplifiedCar("South", "Straight"), SimplifiedCar("East", "Straight")>>,
     <<SimplifiedCar("East", "Straight"), SimplifiedCar("South", "Straight")>>}

ChainTraffic ==
    [arrivals |-> ChainArrivals, steps |-> {YELLOW_TIME}, overflow_checks |-> TRUE]

\* the durations of the chain: one per crossing, the same in both tables
ChainDurations ==
    {d \in [ChainRelation -> Durations] :
        \A pr \in ChainRelation : d[pr] = d[<<pr[2], pr[1]>>]}

\* the cars that arrive at the per-origin light
LightArrivals == {SimplifiedCar("North", "Straight"), SimplifiedCar("East", "Right"),
                  SimplifiedCar("East", "Left")}

\* orders in which a HashMap may iterate over the four origins: the rotations of
\* Origins, so that every origin comes last in one of them
IterationOrders ==
    {[k \in DOMAIN Origins |-> Origins[((k + r) % Len(Origins)) + 1]] :
        r \in DOMAIN Origins}

\* ticks a yellow time, or what is left of a minimum green time after it, apart
LightTraffic(order) ==
    [arrivals |-> LightArrivals,
     steps    |-> {yellow_time, minimum_green_time - yellow_time},
     order    |-> order]

----------------------------------------------------------------------------
(* The state machine *)

\* TrafficLightController::new with the conflict tables of relation R and
\* durations d
new(R, d) ==
    /\ traffic_lights =
          [k \in Lights |->
              TrafficLight_new(generate_traffic_lights[k][1],
                               generate_traffic_lights[k][2],
                               table_of(R, d, generate_traffic_lights[k]))]
    /\ queue = generate_queue
    /\ net_cars = [m \in Movements |-> 0]
    /\ aborted = FALSE
    /\ traffic_light = Light_new
    /\ paused = FALSE
    /\ last_paused = 0
    /\ answer = <<>>
    /\ lights_to_make_green = <<>>
    /\ scan_index = 0
    /\ cars = <<>>

Init ==
    \/ /\ traffic = PairTraffic
       /\ \E R \in ConflictRelations(PairArrivals) : \E d \in [R -> Durations] : new(R, d)
    \/ /\ traffic = ChainTraffic
       /\ \E d \in ChainDurations : new(ChainRelation, d)

\* the signals after lines 36-43 of update, called dt after the previous call
updated_lights(dt) ==
    LET aged == [i \in DOMAIN traffic_lights |-> pass_time(traffic_lights[i], dt)]
    IN  update_lights(aged, queue_lengths_of(aged, queue))

\* lights_to_make_green after the eligibility loop
pushed_lights(dt) ==
    collect(updated_lights(dt), queue, queue_lengths_of(traffic_lights, queue), 1)

\* lights_to_make_green after the resolution loop
kept_lights(dt) ==
    resolution_loop(updated_lights(dt), queue_lengths_of(traffic_lights, queue),
                    pushed_lights(dt), 1)

\* TrafficLightController::update, called dt after the previous call
update(dt) ==
    /\ ~aborted
    /\ \E lights \in {updated_lights(dt)} :
       \E lengths \in {queue_lengths_of(traffic_lights, queue)} :
       \E pushed \in {collect(lights, queue, lengths, 1)} :
       \E kept \in {resolution_loop(lights, lengths, pushed, 1)} :
           traffic_lights' = arm_lights(lights, kept)
    /\ UNCHANGED <<queue, traffic, net_cars, aborted, traffic_light, paused, last_paused, answer,
                   lights_to_make_green, scan_index, cars>>

\* variant: the count is set to one
add_car_SetsOne(car) ==
    /\ ~aborted
    /\ queue[car] < MaxQueue \/ queue[car] > usize_MAX - MaxQueue
    /\ queue' = [queue EXCEPT ![car] = 1]
    /\ net_cars' = [net_cars EXCEPT ![car] = @ + 1]
    /\ UNCHANGED <<traffic_lights, traffic, aborted, traffic_light, paused, last_paused, answer,
                   lights_to_make_green, scan_index, cars>>

\* TrafficLightController::add_car: `*queue += 1` on a usize.  A count at
\* usize::MAX is there only after remove_car has wrapped, in a build without
\* overflow checks, where the addition wraps to 0
add_car(car) ==
    /\ ~aborted
    /\ queue[car] < MaxQueue \/ queue[car] > usize_MAX - MaxQueue
    /\ queue' = [queue EXCEPT ![car] = IF @ = usize_MAX THEN 0 ELSE @ + 1]
    /\ net_cars' = [net_cars EXCEPT ![car] = @ + 1]
    /\ UNCHANGED <<traffic_lights, traffic, aborted, traffic_light, paused, last_paused, answer,
                   lights_to_make_green, scan_index, cars>>

\* variant: the queue of the movement is emptied
remove_car_Clears(car) ==
    /\ ~aborted
    /\ queue[car] > 0
    /\ queue' = [queue EXCEPT ![car] = 0]
    /\ net_cars' = [net_cars EXCEPT ![car] = @ - 1]
    /\ UNCHANGED <<traffic_lights, traffic, aborted, traffic_light, paused, last_paused, answer,
                   lights_to_make_green, scan_index, cars>>

\* TrafficLightController::remove_car: `*queue -= 1` on a usize.  On a count of 0
\* the subtraction overflows: with overflow checks on (cargo's dev profile) it
\* panics before anything is stored, without them (cargo's release profile) it
\* stores usize::MAX and returns
remove_car(car) ==
    /\ ~aborted
    /\ \/ /\ queue[car] > 0
          /\ queue[car] <= MaxQueue \/ queue[car] > usize_MAX - MaxQueue
          /\ queue' = [queue EXCEPT ![car] = @ - 1]
          /\ UNCHANGED aborted
       \/ /\ queue[car] = 0
          /\ traffic.overflow_checks
          /\ aborted' = TRUE
          /\ UNCHANGED queue
       \/ /\ queue[car] = 0
          /\ ~traffic.overflow_checks
          /\ queue' = [queue EXCEPT ![car] = usize_MAX]
          /\ UNCHANGED aborted
    /\ net_cars' = [net_cars EXCEPT ![car] = @ - 1]
    /\ UNCHANGED <<traffic_lights, traffic, traffic_light, paused, last_paused, answer,
                   lights_to_make_green, scan_index, cars>>

\* main.rs: update_args, `if !paused { traffic_light.update(); ... }`
Tick == ~paused /\ \E dt \in traffic.steps : update(dt)

AddCar == ~paused /\ \E car \in traffic.arrivals : add_car(car)

RemoveCar == ~paused /\ \E car \in traffic.arrivals : remove_car(car)

Next == Tick \/ AddCar \/ RemoveCar

Spec == Init /\ [][Next]_vars

\* two movements that may conflict, one duration, and a render loop that calls
\* update in every frame (main.rs:224-227)
FairInit ==
    /\ traffic = PairTraffic
    /\ \E R \in ConflictRelations(PairArrivals) : new(R, [pr \in R |-> YELLOW_TIME])

FairSpec == FairInit /\ [][Next]_vars /\ WF_vars(Tick)

\* the same two movements in a build without overflow checks
ReleaseInit ==
    /\ traffic = ReleaseTraffic
    /\ \E R \in ConflictRelations(PairArrivals) : new(R, [pr \in R |-> YELLOW_TIME])

ReleaseSpec == ReleaseInit /\ [][Next]_vars

\* the per-origin light on its own: the controller is constructed and never called
LightInit ==
    /\ \E order \in IterationOrders : traffic = LightTraffic(order)
    /\ new({}, <<>>)

\* TrafficLight::update, called dt after the previous call
LightTick ==
    /\ ~aborted
    /\ \E dt \in traffic.steps : \E entry \in EntryTimes :
          traffic_light' = Light_update(Light_pass_time(traffic_light, dt),
                                        traffic.order, entry)
    /\ UNCHANGED <<traffic_lights, queue, traffic, net_cars, aborted, paused, last_paused, answer,
                   lights_to_make_green, scan_index, cars>>

\* TrafficLight::add_car
LightAddCar ==
    /\ ~aborted
    /\ \E car \in traffic.arrivals :
          /\ Len(traffic_light.queue[car[1]]) < MaxQueue
          /\ traffic_light' = Light_add_car(traffic_light, car)
    /\ UNCHANGED <<traffic_lights, queue, traffic, net_cars, aborted, paused, last_paused, answer,
                   lights_to_make_green, scan_index, cars>>

\* TrafficLight::remove_car: queue.remove(0) panics on an empty queue
LightRemoveCar ==
    /\ ~aborted
    /\ \E car \in traffic.arrivals : \E entry \in EntryTimes :
          \/ /\ traffic_light.queue[car[1]] # <<>>
             /\ traffic_light' = Light_remove_car(traffic_light, car[1], car[2], entry)
             /\ UNCHANGED aborted
          \/ /\ traffic_light.queue[car[1]] = <<>>
             /\ aborted' = TRUE
             /\ UNCHANGED traffic_light
    /\ UNCHANGED <<traffic_lights, queue, traffic, net_cars, paused, last_paused, answer,
                   lights_to_make_green, scan_index, cars>>

LightNext == LightTick \/ LightAddCar \/ LightRemoveCar

LightSpec == LightInit /\ [][LightNext]_vars

----------------------------------------------------------------------------
(* Vocabulary of the properties *)

\* the conflict-table key of light i
key_of(lights, i) == SimplifiedCar(lights[i].origin, lights[i].direction)

\* light j is a key of the conflict table of light i
conflicts(lights, i, j) == key_of(lights, j) \in DOMAIN lights[i].intersecting_lights

\* the signal is Green or Yellow
is_on(light) == light.state \in {"Green", "Yellow"}

\* the lights a list of (index, queue length, max_delay) tuples names
lights_in(list) == {list[k][1] : k \in 1..Len(list)}

\* the times after the previous call at which update can be called in this state:
\* none once the process has panicked, none while the simulation is paused
update_steps == IF aborted \/ paused THEN {} ELSE traffic.steps

\* this step is a call of update, dt after the previous one
is_update(dt) ==
    /\ dt \in update_steps
    /\ UNCHANGED <<queue, traffic, net_cars, aborted, traffic_light, paused, last_paused, answer,
                   lights_to_make_green, scan_index, cars>>
    /\ traffic_lights' = arm_lights(updated_lights(dt), kept_lights(dt))

\* this step is a call of add_car or remove_car
is_car_call == queue' # queue \/ aborted' # aborted

----------------------------------------------------------------------------
(* C1 *)

\* C1 (No-conflict-admission): in every reachable state, two distinct movements
\* that are both Green or Yellow are not keys in each other's conflict table.
C1_NoConflictAdmission ==
    \A i, j \in Lights :
        (i # j /\ is_on(traffic_lights[i]) /\ is_on(traffic_lights[j]))
            => /\ ~conflicts(traffic_lights, i, j)
               /\ ~conflicts(traffic_lights, j, i)

----------------------------------------------------------------------------
(* C2 *)

\* C2 (minimum green respected): the light gives up a green (the green origin
\* becomes past_green and its yellow starts) only in a call of update at which
\* minimum_green_time has elapsed since phase_start, the start of that green.
C2_MinimumGreenRespected ==
    [][\A o \in OriginSet :
          (/\ traffic_light.green = o
           /\ traffic_light'.green = None
           /\ traffic_light'.past_green = o
           /\ traffic_light'.should_switch)
              => traffic_light'.phase_elapsed >= minimum_green_time
      ]_vars

----------------------------------------------------------------------------
(* C3 *)

\* C3 (queue non-negativity): as long as no remove_car was called on a movement
\* without a car, every queue count is >= 0 and equals the number of add_car
\* calls minus the number of remove_car calls for that movement.
C3_QueueIsAddsMinusRemoves ==
    ~aborted => \A m \in Movements : queue[m] >= 0 /\ queue[m] = net_cars[m]

\* two movements hold cars, one of them after more than one add_car
C3_Witness ==
    /\ ~aborted
    /\ \E m1, m2 \in Movements : m1 # m2 /\ queue[m1] = 2 /\ queue[m2] = 1

----------------------------------------------------------------------------
(* C4, C5 *)

\* C4 (the resolved set is conflict-free): whenever update is called, no light
\* that survives the resolution loop is a key in the conflict table of another
\* survivor.
C4_SurvivorsDoNotConflict ==
    \A dt \in update_steps :
        LET lights == updated_lights(dt)
            kept   == lights_in(kept_lights(dt))
        IN  \A a, b \in kept : a # b => ~conflicts(lights, a, b)

\* the resolution loop drops a candidate
C4_Witness ==
    \E dt \in update_steps : Len(kept_lights(dt)) < Len(pushed_lights(dt))

\* C5 (greedy maximality): whenever update is called, every candidate the
\* resolution loop dropped conflicts with at least one surviving candidate.
C5_GreedyMaximality ==
    \A dt \in update_steps :
        LET lights == updated_lights(dt)
            kept   == lights_in(kept_lights(dt))
        IN  \A i \in lights_in(pushed_lights(dt)) \ kept :
                \E j \in kept : conflicts(lights, i, j) \/ conflicts(lights, j, i)

----------------------------------------------------------------------------
(* C6, C7, C8 *)

\* the keys of light i whose signal is Green or Yellow
active_keys(lights, i) ==
    {p \in DOMAIN lights[i].intersecting_lights : is_on(peer(lights, p))}

\* some key of light i names a signal that cannot change to red
blocked(lights, i) ==
    \E p \in DOMAIN lights[i].intersecting_lights : ~can_change_to_red(peer(lights, p))

\* some key of light i names a Green or Yellow signal that cannot change to red
blocked_by_green(lights, i) ==
    \E p \in active_keys(lights, i) : ~can_change_to_red(peer(lights, p))

\* C6 (strict eligibility), as stated: whenever update is called, a light is
\* collected as a candidate iff no Green or Yellow light of its conflict table
\* blocks it (cannot change to red) and its queue count is strictly greater than
\* the sum of the queue counts of its conflict-table peers that are Green or
\* Yellow.
C6_EligibleUnlessGreenPeerBlocks ==
    \A dt \in update_steps :
        LET lights == updated_lights(dt)
        IN  \A i \in Lights :
                (i \in lights_in(pushed_lights(dt)))
                    <=> /\ ~blocked_by_green(lights, i)
                        /\ queue[key_of(lights, i)]
                               > SumOver(queue, active_keys(lights, i))

\* C6 (strict eligibility), amended: whenever update is called, a light is
\* collected as a candidate iff no light of its conflict table, Red ones
\* included, cannot change to red, and its queue count is strictly greater than
\* the sum of the queue counts of its conflict-table peers that are Green or
\* Yellow; the tuple carries that queue count.  With equal counts, or a count of
\* 0, the light is not collected.
C6_StrictEligibility ==
    \A dt \in update_steps :
        LET lights == updated_lights(dt)
            pushed == pushed_lights(dt)
        IN  \A i \in Lights :
                /\ (i \in lights_in(pushed))
                       <=> /\ ~blocked(lights, i)
                           /\ queue[key_of(lights, i)]
                                  > SumOver(queue, active_keys(lights, i))
                /\ \A k \in 1..Len(pushed) :
                       pushed[k][1] = i => pushed[k][2] = queue[key_of(lights, i)]

\* a movement whose count equals that of its Green or Yellow peers, which no
\* peer blocks, is not collected
C6_Witness ==
    \E dt \in update_steps :
        LET lights == updated_lights(dt)
        IN  \E i \in Lights :
                /\ queue[key_of(lights, i)] > 0
                /\ queue[key_of(lights, i)] = SumOver(queue, active_keys(lights, i))
                /\ ~blocked(lights, i)
                /\ i \notin lights_in(pushed_lights(dt))

\* C7: whenever update is called, a light with a conflict-table peer that is
\* Green or Yellow and cannot change to red is not a candidate and no green
\* request is armed for it in this call, whatever its queue count.
C7_BlockedByGreenPeer ==
    \A dt \in update_steps :
        LET lights == updated_lights(dt)
            after  == arm_lights(lights, kept_lights(dt))
        IN  \A i \in Lights :
                blocked_by_green(lights, i)
                    => /\ i \notin lights_in(pushed_lights(dt))
                       /\ after[i] = lights[i]

\* a movement with more cars than its Green or Yellow peers is held back by a
\* Green peer that cannot change to red yet
C7_Witness ==
    \E dt \in update_steps :
        LET lights == updated_lights(dt)
        IN  \E i \in Lights :
                /\ queue[key_of(lights, i)] > SumOver(queue, active_keys(lights, i))
                /\ blocked_by_green(lights, i)
                /\ ~lights[i].armed
                /\ lights[i].state = "Red"

\* the largest conflict-table duration of light i over its Green or Yellow peers
active_delay(lights, i) ==
    IF active_keys(lights, i) = {} THEN 0
    ELSE Max({lights[i].intersecting_lights[p] : p \in active_keys(lights, i)})

\* C8: whenever update is called, every surviving candidate carries, and every
\* light armed in this call is armed with, the maximum of its conflict-table
\* durations over exactly the peers that are Green or Yellow, and 0 if none is.
C8_DelayIsMaxOverGreenPeers ==
    \A dt \in update_steps :
        LET lights == updated_lights(dt)
            kept   == kept_lights(dt)
            after  == arm_lights(lights, kept)
        IN  /\ \A k \in 1..Len(kept) : kept[k][3] = active_delay(lights, kept[k][1])
            /\ \A i \in Lights :
                   (~lights[i].armed /\ after[i].armed)
                       => after[i].scheduled_green_delay = active_delay(lights, i)

\* a light is armed with the duration of its Green or Yellow peer while its
\* table holds a longer duration for a Red peer
C8_Witness ==
    \E dt \in update_steps :
        LET lights == updated_lights(dt)
            after  == arm_lights(lights, kept_lights(dt))
        IN  \E i \in Lights :
                /\ ~lights[i].armed /\ after[i].armed
                /\ after[i].scheduled_green_delay > 0
                /\ \E p \in DOMAIN lights[i].intersecting_lights :
                       /\ ~is_on(peer(lights, p))
                       /\ lights[i].intersecting_lights[p]
                              > after[i].scheduled_green_delay

----------------------------------------------------------------------------
(* C9, C10 *)

\* C9: a movement goes from Red to Green only in a call of update, only if a
\* green request is armed for it, and only if the request's delay has elapsed
\* since it was armed; a request is armed only for a Red movement; a Red movement
\* with no armed request stays Red.
C9_RedToGreenOnlyByDueRequest ==
    [][/\ \A i \in Lights :
             /\ (traffic_lights[i].state = "Red" /\ traffic_lights'[i].state = "Green")
                   => traffic_lights[i].armed
             /\ (traffic_lights[i].state = "Red" /\ ~traffic_lights[i].armed)
                   => traffic_lights'[i].state = "Red"
             /\ traffic_lights'[i].armed => traffic_lights'[i].state = "Red"
       /\ (\E i \in Lights :
               traffic_lights[i].state = "Red" /\ traffic_lights'[i].state = "Green")
             => /\ \E dt \in update_steps : is_update(dt)
                /\ \A dt \in update_steps :
                      is_update(dt) =>
                          \A i \in Lights :
                              (/\ traffic_lights[i].state = "Red"
                               /\ traffic_lights'[i].state = "Green")
                                  => traffic_lights[i].armed_elapsed + dt
                                         >= traffic_lights[i].scheduled_green_delay
      ]_vars

\* a Red movement has waited through a call of update with its request not yet due
C9_Witness ==
    \E i \in Lights :
        /\ traffic_lights[i].state = "Red"
        /\ traffic_lights[i].armed
        /\ traffic_lights[i].armed_elapsed > 0
        /\ traffic_lights[i].armed_elapsed < traffic_lights[i].scheduled_green_delay

\* C10: an armed green request is never cancelled.  No add_car or remove_car
\* touches it; a call of update before its delay has elapsed leaves it armed with
\* the same delay and arming instant, and the first call of update at which the
\* delay has elapsed makes the movement Green, whatever the queue counts.
C10_ArmedRequestIsNeverCancelled ==
    [][/\ is_car_call
             => \A i \in Lights :
                    traffic_lights[i].armed => traffic_lights'[i] = traffic_lights[i]
       /\ (\E i \in Lights : traffic_lights[i].armed)
             => \A dt \in update_steps :
                    is_update(dt) =>
                        \A i \in Lights :
                            traffic_lights[i].armed =>
                                IF traffic_lights[i].armed_elapsed + dt
                                       >= traffic_lights[i].scheduled_green_delay
                                THEN traffic_lights'[i].state = "Green"
                                ELSE /\ traffic_lights'[i].state = "Red"
                                     /\ traffic_lights'[i].armed
                                     /\ traffic_lights'[i].scheduled_green_delay
                                            = traffic_lights[i].scheduled_green_delay
                                     /\ traffic_lights'[i].armed_elapsed
                                            = traffic_lights[i].armed_elapsed + dt
      ]_vars

\* a request is pending, a call of update has passed since it was armed, and the
\* movement's own queue is empty
C10_Witness ==
    \E i \in Lights :
        /\ traffic_lights[i].armed
        /\ traffic_lights[i].armed_elapsed > 0
        /\ queue[key_of(traffic_lights, i)] = 0

----------------------------------------------------------------------------
(* C11, C12, C13 *)

\* C11 (arming is idempotent): in a call of update, a light that holds a pending
\* request after the signal update and survives the resolution loop again is
\* left as it is: same arming instant, same delay, still one request.
C11_ArmingIsIdempotent ==
    [][\A dt \in update_steps :
          is_update(dt) =>
              \A lights \in {updated_lights(dt)} :
              \A kept \in {lights_in(kept_lights(dt))} :
                  \A i \in kept :
                      lights[i].armed => traffic_lights'[i] = lights[i]
      ]_vars

\* a light whose request has been pending through a call of update survives the
\* resolution loop again
C11_Witness ==
    \E dt \in update_steps :
        LET lights == updated_lights(dt)
        IN  \E i \in lights_in(kept_lights(dt)) :
                /\ lights[i].armed
                /\ lights[i].armed_elapsed > 0
                /\ lights[i].scheduled_green_delay > 0

C13_OnlyLegalTransitions ==
    [][\A i \in Lights :
          traffic_lights'[i].state # traffic_lights[i].state
              => <<traffic_lights[i].state, traffic_lights'[i].state>>
                     \in {<<"Red", "Green">>, <<"Green", "Yellow">>, <<"Yellow", "Red">>}
      ]_vars

\* the resolution loop keeps, and update passes to change_to_green, a light that
\* is Yellow
C13_Witness ==
    \E dt \in update_steps :
        LET lights == updated_lights(dt)
        IN  \E i \in lights_in(kept_lights(dt)) : lights[i].state = "Yellow"

----------------------------------------------------------------------------
(* C14 *)

\* C14 (Yellow ends by itself): a Yellow movement stays Yellow until the first
\* call of update at which yellow_duration has elapsed since red_start and
\* becomes Red in that call, whatever the queue counts are; so, while update
\* keeps being called, no movement stays Yellow for ever: since Yellow is left
\* for Red only, every Yellow movement is eventually Red.
C14_YellowBecomesRed ==
    /\ [][\A i \in Lights :
             traffic_lights[i].state = "Yellow" =>
                 /\ traffic_lights'[i].state \in {"Yellow", "Red"}
                 /\ traffic_lights'[i].state = "Red"
                        <=> \E dt \in update_steps :
                                /\ is_update(dt)
                                /\ traffic_lights[i].red_elapsed + dt >= YELLOW_TIME
         ]_vars
    /\ \A i \in Lights : []<>(traffic_lights[i].state # "Yellow" \/ aborted)

\* a Yellow movement with cars waiting, part of its yellow behind it, that the
\* next frame turns Red
C14_Witness ==
    \E i \in Lights :
        /\ traffic_lights[i].state = "Yellow"
        /\ queue[key_of(traffic_lights, i)] > 0
        /\ traffic_lights[i].red_elapsed > 0
        /\ traffic_lights[i].red_elapsed + FrameStep >= YELLOW_TIME

----------------------------------------------------------------------------
(* C15 *)

\* C15 (only Red movements are scheduled): in no call of update is a light that
\* is Green or Yellow after the signal update pushed to lights_to_make_green or
\* passed to change_to_green.
C15_OnlyRedCollected ==
    \A dt \in update_steps :
        LET lights == updated_lights(dt)
        IN  \A i \in lights_in(pushed_lights(dt)) \cup lights_in(kept_lights(dt)) :
                lights[i].state = "Red"

----------------------------------------------------------------------------
(* C16 *)

\* light i is Red with cars waiting and every light of its conflict table is Red
all_peers_red(lights, i) ==
    /\ lights[i].state = "Red"
    /\ queue[key_of(lights, i)] > 0
    /\ \A p \in DOMAIN lights[i].intersecting_lights : peer(lights, p).state = "Red"

\* light i is in the list with delay 0
pushed_without_delay(list, i) ==
    \E k \in 1..Len(list) : list[k][1] = i /\ list[k][3] = 0

\* C16 (all peers Red), as stated: in a call of update, a Red light with cars
\* waiting whose conflict-table peers are all Red is collected with delay 0,
\* whatever the timers and pending requests of those peers.
C16_AllRedPeersAlwaysEligible ==
    [][\A dt \in update_steps :
          is_update(dt) =>
              \A lights \in {updated_lights(dt)} :
              \A pushed \in {pushed_lights(dt)} :
                  \A i \in Lights :
                      all_peers_red(lights, i) => pushed_without_delay(pushed, i)
      ]_vars

\* C16 (all peers Red), amended: in a call of update, a Red light with cars
\* waiting whose conflict-table peers are all Red and can all change to red
\* (minimum green elapsed, no pending request) is collected with delay 0.
C16_AllRedPeersEligible ==
    [][\A dt \in update_steps :
          is_update(dt) =>
              \A lights \in {updated_lights(dt)} :
              \A pushed \in {pushed_lights(dt)} :
                  \A i \in Lights :
                      (all_peers_red(lights, i) /\ ~blocked(lights, i))
                          => pushed_without_delay(pushed, i)
      ]_vars

\* a Red light with cars waiting has a Red peer with at least as many cars, and
\* nothing blocks it
C16_Witness ==
    \E dt \in update_steps :
        LET lights == updated_lights(dt)
        IN  \E i \in Lights :
                /\ all_peers_red(lights, i)
                /\ ~blocked(lights, i)
                /\ \E p \in DOMAIN lights[i].intersecting_lights :
                       queue[p] >= queue[key_of(lights, i)]
                /\ pushed_without_delay(pushed_lights(dt), i)

----------------------------------------------------------------------------
(* C17 *)

\* C17 (isolated movement): in a call of update, a light with an empty conflict
\* table that is Red with cars waiting is collected with delay 0, kept by the
\* resolution loop, and leaves the call holding a request with delay 0.
C17_IsolatedMovementArmed ==
    [][\A dt \in update_steps :
          is_update(dt) =>
              \A lights \in {updated_lights(dt)} :
                  \A i \in Lights :
                      ( /\ DOMAIN lights[i].intersecting_lights = {}
                        /\ lights[i].state = "Red"
                        /\ queue[key_of(lights, i)] > 0 )
                      => /\ pushed_without_delay(pushed_lights(dt), i)
                         /\ pushed_without_delay(kept_lights(dt), i)
                         /\ traffic_lights'[i].state = "Red"
                         /\ traffic_lights'[i].armed
                         /\ traffic_lights'[i].scheduled_green_delay = 0
      ]_vars

\* two isolated Red movements, both with cars waiting, have both been armed
\* with delay 0 by one call of update
C17_Witness ==
    \E i, j \in Lights :
        /\ i # j
        /\ \A k \in {i, j} :
              /\ DOMAIN traffic_lights[k].intersecting_lights = {}
              /\ traffic_lights[k].state = "Red"
              /\ queue[key_of(traffic_lights, k)] > 0
              /\ traffic_lights[k].armed
              /\ traffic_lights[k].armed_elapsed = 0
              /\ traffic_lights[k].scheduled_green_delay = 0

----------------------------------------------------------------------------
(* C18 *)

\* the entry of the list for light i
entry_of(list, i) == list[CHOOSE k \in 1..Len(list) : list[k][1] = i]

\* the comparison of two entries with queue counts qa, qb and delays da, db, the
\* first at position 1
compared(qa, da, qb, db) ==
    pair_loser(<<(<<1, qa, da>>), (<<2, qb, db>>)>>, <<qa, qb>>, 1, 2)

\* C18 (pair comparison): of two conflicting entries the comparison drops the
\* one with the smaller queue count and, on equal counts, the one with the larger
\* delay; of counts 8 and 3 the entry with 3 is dropped.  In a call of update,
\* every entry the resolution loop has dropped conflicts with a pushed entry that
\* has a larger queue count, or the same count and a delay not larger.
C18_PairComparison ==
    /\ \A qa, qb \in 0..MaxPairQueue : \A da, db \in {0} \cup Durations :
          /\ qa < qb => compared(qa, da, qb, db) = 1
          /\ qa > qb => compared(qa, da, qb, db) = 2
          /\ (qa = qb /\ da > db) => compared(qa, da, qb, db) = 1
          /\ (qa = qb /\ da < db) => compared(qa, da, qb, db) = 2
          /\ (qa = 8 /\ qb = 3) => compared(qa, da, qb, db) = 2
          /\ (qa = 3 /\ qb = 8) => compared(qa, da, qb, db) = 1
    /\ [][\A dt \in update_steps :
             is_update(dt) =>
                 \A lights \in {updated_lights(dt)} :
                 \A pushed \in {pushed_lights(dt)} :
                 \A kept \in {kept_lights(dt)} :
                     \A x \in lights_in(pushed) \ lights_in(kept) :
                         \E y \in lights_in(pushed) :
                             /\ conflicts(lights, x, y) \/ conflicts(lights, y, x)
                             /\ \/ entry_of(pushed, x)[2] < entry_of(pushed, y)[2]
                                \/ /\ entry_of(pushed, x)[2] = entry_of(pushed, y)[2]
                                   /\ entry_of(pushed, x)[3] >= entry_of(pushed, y)[3]
         ]_vars

\* two conflicting entries with the same queue count and different delays have
\* been pushed, and the resolution loop has dropped the one with the larger delay
\* and kept the other
C18_Witness ==
    \E dt \in update_steps :
        LET lights == updated_lights(dt)
            pushed == pushed_lights(dt)
            kept   == kept_lights(dt)
        IN  \E x \in lights_in(pushed) \ lights_in(kept) :
                \E y \in lights_in(kept) :
                    /\ conflicts(lights, x, y)
                    /\ entry_of(pushed, x)[2] = entry_of(pushed, y)[2]
                    /\ entry_of(pushed, x)[3] > entry_of(pushed, y)[3]

----------------------------------------------------------------------------
(* C19 *)

\* C19 (anti-flapping): in a call of update, while a light holds a pending
\* request or is within its minimum green, that is, while its
\* can_change_to_red() is false, no light that has it in its conflict table is
\* collected, and none of them is armed: each leaves the call as the signal
\* update left it.
C19_NoArmingNextToBusyPeer ==
    [][\A dt \in update_steps :
          is_update(dt) =>
              \A lights \in {updated_lights(dt)} :
              \A pushed \in {pushed_lights(dt)} :
                  \A i, j \in Lights :
                      ( /\ conflicts(lights, i, j)
                        /\ lights[j].armed \/ ~minimum_green_elapsed(lights[j]) )
                      => /\ ~can_change_to_red(lights[j])
                         /\ i \notin lights_in(pushed)
                         /\ traffic_lights'[i] = lights[i]
      ]_vars

\* a Red light with more cars than its Green or Yellow peers is not collected
\* because a Red light of its table, its minimum green long over, holds a
\* pending request
C19_Witness ==
    \E dt \in update_steps :
        LET lights == updated_lights(dt)
        IN  \E i, j \in Lights :
                /\ conflicts(lights, i, j)
                /\ lights[j].state = "Red"
                /\ lights[j].armed
                /\ minimum_green_elapsed(lights[j])
                /\ lights[i].state = "Red"
                /\ ~lights[i].armed
                /\ queue[key_of(lights, i)] > total_queue_length(lights, queue, i)
                /\ i \notin lights_in(pushed_lights(dt))

----------------------------------------------------------------------------
(* C20 *)

\* C20 (remove_car on an empty queue is fatal): a call of remove_car for a
\* movement whose count is 0 aborts the program and stores nothing, so no count
\* is ever wrapped around or negative.
C20_RemoveOnZeroAborts ==
    [][\A car \in Movements :
          /\ (queue[car] = 0 /\ net_cars'[car] < net_cars[car])
                 => (aborted' /\ queue' = queue)
          /\ queue'[car] \in 0..MaxQueue
      ]_vars

----------------------------------------------------------------------------
(* C21 *)

\* main.rs: cars may enter the intersection on yellow
ALLOW_GO_ON_YELLOW == TRUE

\* variant: a Yellow light does not count
is_green_GreenOnly(origin, direction) ==
    traffic_lights[get_traffic_light(origin, direction)].state = "Green"

\* TrafficLightController::is_green: the light is green or yellow
is_green(origin, direction) ==
    traffic_lights[get_traffic_light(origin, direction)].state # "Red"

\* TrafficLightController::is_yellow
is_yellow(origin, direction) ==
    /\ ALLOW_GO_ON_YELLOW
    /\ traffic_lights[get_traffic_light(origin, direction)].state = "Yellow"

\* C21 (is_yellow covers the first part of yellow only): is_yellow is true for a
\* movement only while less than 30% of the yellow duration has elapsed since
\* its red_start.
C21_YellowOnlyInFirstPart ==
    \A m \in Movements :
        is_yellow(m[1], m[2])
            => 10 * traffic_lights[get_traffic_light(m[1], m[2])].red_elapsed
                   < 3 * YELLOW_TIME

----------------------------------------------------------------------------
(* C22 *)

\* variant: the query also restarts the minimum green of the light it reads
is_green_call_Restarts(car) ==
    /\ ~aborted
    /\ answer' = <<"is_green", car, is_green(car[1], car[2])>>
    /\ traffic_lights' =
          [traffic_lights EXCEPT ![get_traffic_light(car[1], car[2])].green_elapsed = 0]
    /\ UNCHANGED <<queue, traffic, net_cars, aborted, traffic_light, paused, last_paused,
                   lights_to_make_green, scan_index, cars>>

\* a call of is_green(&self, origin, direction): the caller gets the answer
is_green_call(car) ==
    /\ ~aborted
    /\ answer' = <<"is_green", car, is_green(car[1], car[2])>>
    /\ UNCHANGED <<traffic_lights, queue, traffic, net_cars, aborted, traffic_light,
                   paused, last_paused,
                   lights_to_make_green, scan_index, cars>>

\* a call of is_yellow(&self, origin, direction)
is_yellow_call(car) ==
    /\ ~aborted
    /\ answer' = <<"is_yellow", car, is_yellow(car[1], car[2])>>
    /\ UNCHANGED <<traffic_lights, queue, traffic, net_cars, aborted, traffic_light,
                   paused, last_paused,
                   lights_to_make_green, scan_index, cars>>

\* Car::update asks for the light of its movement (car.rs:206, 229, 236)
IsGreen == ~paused /\ \E car \in traffic.arrivals : is_green_call(car)

IsYellow == ~paused /\ \E car \in traffic.arrivals : is_yellow_call(car)

QueryNext == Next \/ IsGreen \/ IsYellow

\* two movements that may conflict, frames a yellow duration apart, and cars
\* that look at their lights
QueryTraffic == [PairTraffic EXCEPT !.steps = {YELLOW_TIME}]

QueryInit ==
    /\ traffic = QueryTraffic
    /\ \E R \in ConflictRelations(PairArrivals) : new(R, [pr \in R |-> YELLOW_TIME])

QuerySpec == QueryInit /\ [][QueryNext]_vars

\* this step is a call of is_green or is_yellow
is_query == answer' # answer

\* a call of update, dt after the previous one, would leave `after` in
\* traffic_lights
next_tick(dt, after) ==
    \E lights \in {updated_lights(dt)} :
    \E lengths \in {queue_lengths_of(traffic_lights, queue)} :
    \E pushed \in {collect(lights, queue, lengths, 1)} :
    \E kept \in {resolution_loop(lights, lengths, pushed, 1)} :
        after = arm_lights(lights, kept)

\* C22 (queries are read-only): a call of is_green or is_yellow changes no
\* signal, no queue count and nothing else of the controller, and a call of
\* update after it leaves the signals as it would have left them without it.
C22_QueriesAreReadOnly ==
    [][is_query =>
          /\ UNCHANGED <<traffic_lights, queue, traffic, net_cars, aborted,
                         traffic_light, paused, last_paused,
                   lights_to_make_green, scan_index, cars>>
          /\ \A dt \in traffic.steps :
                \E lights \in {updated_lights(dt)} :
                \E lengths \in {queue_lengths_of(traffic_lights, queue)} :
                \E pushed \in {collect(lights, queue, lengths, 1)} :
                \E kept \in {resolution_loop(lights, lengths, pushed, 1)} :
                \E after \in {arm_lights(lights, kept)} :
                    next_tick(dt, after)'
      ]_vars

\* is_yellow has answered true for a Yellow movement while a light of its
\* conflict table holds a pending request
C22_Witness ==
    \E car \in Movements : \E j \in Lights :
        /\ answer = <<"is_yellow", car, TRUE>>
        /\ traffic_lights[get_traffic_light(car[1], car[2])].state = "Yellow"
        /\ conflicts(traffic_lights, get_traffic_light(car[1], car[2]), j)
        /\ traffic_lights[j].armed

----------------------------------------------------------------------------
(* C23 *)

\* the wall clock has run for waited since the elapsed times of the light were
\* last brought up to date
clock_ran(light, waited) ==
    [light EXCEPT !.green_elapsed = @ + waited,
                  !.red_elapsed   = @ + waited,
                  !.armed_elapsed = @ + waited]

\* variant: the arming instant of a pending request is not shifted
TrafficLight_unpause_NoRequest(light, time_elapsed) ==
    [light EXCEPT !.green_elapsed = @ - time_elapsed,
                  !.red_elapsed   = @ - time_elapsed]

\* TrafficLight::unpause(time_elapsed): green_start, red_start and the arming
\* instant are moved forward by time_elapsed
TrafficLight_unpause(light, time_elapsed) ==
    [light EXCEPT !.green_elapsed = @ - time_elapsed,
                  !.red_elapsed   = @ - time_elapsed,
                  !.armed_elapsed = @ - time_elapsed]

\* variant: only the lights that are not Red are told
unpause_GreenOnly(lights, time_elapsed) ==
    [i \in DOMAIN lights |->
        IF lights[i].state # "Red" THEN TrafficLight_unpause(lights[i], time_elapsed)
        ELSE lights[i]]

\* TrafficLightController::unpause
unpause(lights, time_elapsed) ==
    [i \in DOMAIN lights |-> TrafficLight_unpause(lights[i], time_elapsed)]

\* the TrafficLight of traffic_light.rs after the wall clock has run for waited
Light_clock_ran(light, waited) ==
    [light EXCEPT !.phase_elapsed = @ + waited, !.red_elapsed = @ + waited]

\* TrafficLight::unpause of traffic_light.rs: phase_start and red_start are
\* moved forward by time_elapsed
Light_unpause(light, time_elapsed) ==
    [light EXCEPT !.phase_elapsed = @ - time_elapsed, !.red_elapsed = @ - time_elapsed]

\* main.rs, Space key while running: last_paused = Instant::now(); paused = true
Pause ==
    /\ ~aborted
    /\ ~paused
    /\ paused' = TRUE
    /\ last_paused' = 0
    /\ UNCHANGED <<traffic_lights, queue, traffic, net_cars, aborted, traffic_light,
                   answer,
                   lights_to_make_green, scan_index, cars>>

\* main.rs, an update_args event while paused: nothing is called, time passes
PausedFrame ==
    /\ ~aborted
    /\ paused
    /\ \E dt \in traffic.steps :
          /\ last_paused + dt <= MaxPause
          /\ last_paused' = last_paused + dt
    /\ UNCHANGED <<traffic_lights, queue, traffic, net_cars, aborted, traffic_light,
                   paused, answer,
                   lights_to_make_green, scan_index, cars>>

\* main.rs, Space key while paused: paused = false;
\* traffic_light.unpause(last_paused.elapsed()).  last_paused is set again by the
\* next pause only
Unpause ==
    /\ ~aborted
    /\ paused
    /\ paused' = FALSE
    /\ traffic_lights' =
          unpause([i \in DOMAIN traffic_lights |->
                      clock_ran(traffic_lights[i], last_paused)], last_paused)
    /\ traffic_light' = Light_unpause(Light_clock_ran(traffic_light, last_paused),
                                      last_paused)
    /\ UNCHANGED <<queue, traffic, net_cars, aborted, last_paused, answer,
                   lights_to_make_green, scan_index, cars>>

PauseNext == Next \/ Pause \/ PausedFrame \/ Unpause

\* two movements that may conflict, frames a minimum green or a yellow duration
\* apart, and a user at the Space key
PauseTraffic == [PairTraffic EXCEPT !.steps = {MINIMUM_GREEN_TIME, YELLOW_TIME}]

PauseInit ==
    /\ traffic = PauseTraffic
    /\ \E R \in ConflictRelations(PairArrivals) : new(R, [pr \in R |-> YELLOW_TIME])

PauseSpec == PauseInit /\ [][PauseNext]_vars

\* C23 (pause transparency): from the moment of pausing until after unpause no
\* signal changes its state, its elapsed times or its request, and no queue
\* count changes: after unpause(p) every elapsed time is what it was when the
\* pause began, whatever p.
C23_PauseIsTransparent ==
    [][paused => UNCHANGED <<traffic_lights, queue, traffic_light>>]_vars

\* after a pause longer than the yellow duration and unpause, one movement is
\* still Yellow with part of its yellow to go and a movement of its table still
\* waits for its request to fall due
C23_Witness ==
    /\ ~paused
    /\ last_paused > YELLOW_TIME
    /\ \E i, j \in Lights :
          /\ conflicts(traffic_lights, i, j)
          /\ traffic_lights[i].state = "Yellow"
          /\ traffic_lights[i].red_elapsed < YELLOW_TIME
          /\ traffic_lights[j].state = "Red"
          /\ traffic_lights[j].armed
          /\ ~scheduled_green_due(traffic_lights[j])

----------------------------------------------------------------------------
(* C24 *)

\* C24 (frame of add_car and remove_car): a call of add_car for a movement adds
\* one to the queue count of that movement, a call of remove_car for a movement
\* with a count above 0 takes one from it; both leave the other counts and every
\* signal as they were.
C24_CarCallsTouchOneCount ==
    [][\A car \in Movements :
          /\ net_cars'[car] > net_cars[car]
                 => /\ queue' = [queue EXCEPT ![car] = @ + 1]
                    /\ UNCHANGED traffic_lights
          /\ (net_cars'[car] < net_cars[car] /\ queue[car] > 0)
                 => /\ queue' = [queue EXCEPT ![car] = @ - 1]
                    /\ UNCHANGED traffic_lights
      ]_vars

\* cars have come and gone at two movements, one Green, the other Red and
\* holding a request, and both still have cars, one of them two
C24_Witness ==
    \E m1, m2 \in Movements :
        /\ queue[m1] = 1
        /\ queue[m2] = 2
        /\ traffic_lights[get_traffic_light(m1[1], m1[2])].state = "Green"
        /\ traffic_lights[get_traffic_light(m2[1], m2[2])].armed

----------------------------------------------------------------------------
(* C25 *)

\* the twelve (origin, direction) pairs
AllMovements ==
    {SimplifiedCar(Origins[o], Directions[d]) : o \in DOMAIN Origins, d \in DOMAIN Directions}

\* there are twelve signals, one for each (origin, direction) pair, and one
\* queue count for each pair
twelve_movements ==
    /\ Cardinality(DOMAIN traffic_lights) = 12
    /\ Cardinality(AllMovements) = 12
    /\ \A m \in AllMovements :
          Cardinality({i \in DOMAIN traffic_lights : key_of(traffic_lights, i) = m}) = 1
    /\ DOMAIN queue = AllMovements

\* C25 (the twelve movements): TrafficLightController::new leaves twelve
\* signals, one per (origin, direction) pair, all Red without a request, and
\* twelve queue counts of 0; the signals and the counts stay those of the same
\* twelve movements ever after.
C25_TwelveMovementsForEver ==
    /\ \A i \in DOMAIN traffic_lights :
          traffic_lights[i].state = "Red" /\ ~traffic_lights[i].armed
    /\ \A m \in DOMAIN queue : queue[m] = 0
    /\ []twelve_movements

\* long after construction: a movement is Yellow, another holds a request, and
\* a queue is at the bound
C25_Witness ==
    /\ twelve_movements
    /\ \E i, j \in DOMAIN traffic_lights :
          traffic_lights[i].state = "Yellow" /\ traffic_lights[j].armed
    /\ \E m \in DOMAIN queue : queue[m] = MaxQueue

----------------------------------------------------------------------------
(* C26 *)

\* C26 (lookups are total and correct): for each of the twelve (origin,
\* direction) pairs, get_traffic_light gives an index of traffic_lights, the
\* light there was created for that origin and direction, and the queue map has
\* an entry for the pair, which is what queue() returns.
C26_LookupsFindTheirMovement ==
    \A m \in AllMovements :
        /\ get_traffic_light(m[1], m[2]) \in DOMAIN traffic_lights
        /\ traffic_lights[get_traffic_light(m[1], m[2])].origin = m[1]
        /\ traffic_lights[get_traffic_light(m[1], m[2])].direction = m[2]
        /\ m \in DOMAIN queue
        /\ queue_of(queue, m[1], m[2]) = queue[m]

\* two movements can be told apart by what the lookups return: one is Green
\* with a full queue, the other Red with a request and a single car
C26_Witness ==
    \E m1, m2 \in AllMovements :
        /\ traffic_lights[get_traffic_light(m1[1], m1[2])].state = "Green"
        /\ queue_of(queue, m1[1], m1[2]) = MaxQueue
        /\ traffic_lights[get_traffic_light(m2[1], m2[2])].state = "Red"
        /\ traffic_lights[get_traffic_light(m2[1], m2[2])].armed
        /\ queue_of(queue, m2[1], m2[2]) = 1

----------------------------------------------------------------------------
(* C27 *)

\* Origin::opposite
opposite(origin) ==
    CASE origin = "North" -> "South"
      [] origin = "South" -> "North"
      [] origin = "East"  -> "West"
      [] origin = "West"  -> "East"

\* C27 (the rotations of an origin): for every origin, here the origins the
\* light keeps a queue for, turning right twice or left twice gives the opposite
\* origin, a right turn and a left turn undo each other, the opposite of the
\* opposite is the origin itself, and every result is an origin again.
C27_RotationsFormACycle ==
    \A o \in DOMAIN traffic_light.queue :
        /\ {right(o), left(o), opposite(o)} \subseteq OriginSet
        /\ right(right(o)) = opposite(o)
        /\ left(left(o)) = opposite(o)
        /\ left(right(o)) = o
        /\ right(left(o)) = o
        /\ opposite(opposite(o)) = o

\* the light is green for an origin while a car that turns right waits first in
\* line at the origin to its right, and a car waits at the opposite origin of
\* that one
C27_Witness ==
    /\ traffic_light.green # None
    /\ leading_rights(traffic_light.queue[right(traffic_light.green)]) > 0
    /\ traffic_light.queue[opposite(right(traffic_light.green))] = <<>>
    /\ traffic_light.queue[traffic_light.green] # <<>>

(***************************************************************************)
(* C28: the resolution loop of update, one pass of its body at a time      *)
(* (traffic_light_controller.rs, lines 86-141).                            *)
(***************************************************************************)

\* the longest queue of the runs that follow the loop pass by pass
LoopMaxQueue == 3

\* update, lines 36-88, called dt after the previous call: the snapshot of the
\* queues, the lights updated, the candidates collected, let mut i = 0
LoopEnter ==
    /\ scan_index = 0
    /\ \E dt \in update_steps :
       \E lights \in {updated_lights(dt)} :
       \E lengths \in {queue_lengths_of(traffic_lights, queue)} :
           /\ traffic_lights' = lights
           /\ lights_to_make_green' = collect(lights, queue, lengths, 1)
    /\ scan_index' = 1
    /\ UNCHANGED <<queue, traffic, net_cars, aborted, traffic_light, paused, last_paused,
                   answer, cars>>

\* update, lines 89-137: one pass through the body of the loop, while the scan
\* has not passed the last entry
LoopStep ==
    /\ scan_index >= 1
    /\ scan_index <= Len(lights_to_make_green)
    /\ \E next \in {loop_iteration(traffic_lights,
                                    queue_lengths_of(traffic_lights, queue),
                                    lights_to_make_green, scan_index)} :
           /\ lights_to_make_green' = next[1]
           /\ scan_index' = next[2]
    /\ UNCHANGED <<traffic_lights, queue, traffic, net_cars, aborted, traffic_light, paused,
                   last_paused, answer, cars>>

\* update, lines 90-92 and 139-141: the scan has passed the last entry, the
\* loop is left, the survivors are armed and update returns
LoopExit ==
    /\ scan_index >= 1
    /\ scan_index > Len(lights_to_make_green)
    /\ traffic_lights' = arm_lights(traffic_lights, lights_to_make_green)
    /\ lights_to_make_green' = <<>>
    /\ scan_index' = 0
    /\ UNCHANGED <<queue, traffic, net_cars, aborted, traffic_light, paused, last_paused,
                   answer, cars>>

\* variant: a car may arrive while update is inside its loop
LoopAddCar_AnyTime ==
    /\ ~aborted
    /\ \E car \in traffic.arrivals :
           /\ queue[car] < LoopMaxQueue
           /\ queue' = [queue EXCEPT ![car] = @ + 1]
           /\ net_cars' = [net_cars EXCEPT ![car] = @ + 1]
    /\ UNCHANGED <<traffic_lights, traffic, aborted, traffic_light, paused, last_paused,
                   answer, lights_to_make_green, scan_index, cars>>

\* add_car (lines 157-161) between two calls of update: main.rs calls update,
\* add_car and the cars' update one after the other (lines 224-255)
LoopAddCar ==
    /\ scan_index = 0
    /\ ~aborted
    /\ \E car \in traffic.arrivals :
           /\ queue[car] < LoopMaxQueue
           /\ queue' = [queue EXCEPT ![car] = @ + 1]
           /\ net_cars' = [net_cars EXCEPT ![car] = @ + 1]
    /\ UNCHANGED <<traffic_lights, traffic, aborted, traffic_light, paused, last_paused,
                   answer, lights_to_make_green, scan_index, cars>>

LoopNext == LoopEnter \/ LoopStep \/ LoopExit \/ LoopAddCar

\* three movements, cars arriving at each, under every conflict relation among
\* them
LoopInit ==
    /\ traffic = ChainTraffic
    /\ \E R \in ConflictRelations(ChainArrivals) :
       \E d \in {e \in [R -> Durations] : \A pr \in R : e[pr] = e[<<pr[2], pr[1]>>]} :
           new(R, d)

\* a call of update runs on to its return: the loop body and the exit are
\* consecutive statements of one function
LoopSpec ==
    LoopInit /\ [][LoopNext]_vars /\ WF_vars(LoopStep) /\ WF_vars(LoopExit)

\* the candidate list with which the loop of the running call was entered:
\* the lights and the queues do not change inside the loop
candidates == collect(traffic_lights, queue, queue_lengths_of(traffic_lights, queue), 1)

\* C28: a pass of the loop body either moves the scan one entry on and leaves
\* the list alone, or removes exactly one entry and restarts the scan at the
\* first entry; it never removes the last entry; what is left are candidates;
\* every call of update that has entered the loop leaves it; and at the exit a
\* non-empty candidate list has left at least one survivor.
C28_ResolutionLoopTerminates ==
    /\ [][scan_index >= 1 /\ scan_index' >= 1 =>
            /\ \/ /\ lights_to_make_green' = lights_to_make_green
                  /\ scan_index' = scan_index + 1
               \/ /\ Len(lights_to_make_green') = Len(lights_to_make_green) - 1
                  /\ scan_index' = 1
            /\ Len(lights_to_make_green') >= 1
            /\ \A k \in 1..Len(lights_to_make_green') :
                  \E j \in 1..Len(candidates) : lights_to_make_green'[k] = candidates[j]]_vars
    /\ [](scan_index >= 1 /\ scan_index > Len(lights_to_make_green) /\ Len(candidates) > 0
            => Len(lights_to_make_green) >= 1)
    /\ []<>(scan_index = 0)

\* the loop is at its exit with one survivor out of three candidates
C28_Witness ==
    /\ scan_index > Len(lights_to_make_green)
    /\ Len(candidates) = 3
    /\ Len(lights_to_make_green) = 1

(***************************************************************************)
(* C29: the loop against the removal of the globally weakest candidate.    *)
(***************************************************************************)

\* the positions of the list whose entry is in conflict with another entry
in_a_pair(lights, list) ==
    {k \in 1..Len(list) :
        \E j \in 1..Len(list) :
            j # k /\ (in_conflict(lights, list, k, j) \/ in_conflict(lights, list, j, k))}

\* entry a is at most as strong as entry b: the smaller queue count, then the
\* larger max_delay
not_stronger(a, b) == a[2] < b[2] \/ (a[2] = b[2] /\ a[3] >= b[3])

\* the globally weakest among the entries that are in a conflicting pair
weakest(lights, list) ==
    {k \in in_a_pair(lights, list) :
        \A j \in in_a_pair(lights, list) : not_stronger(list[k], list[j])}

\* the surviving sets the other algorithm can leave: the globally weakest
\* candidate in a remaining conflicting pair is removed until no conflicting
\* pair remains; between equally weak candidates either may go
RECURSIVE weakest_first(_, _)
weakest_first(lights, list) ==
    IF in_a_pair(lights, list) = {} THEN {lights_in(list)}
    ELSE UNION {weakest_first(lights, Remove(list, k)) : k \in weakest(lights, list)}

\* C29: when the loop is left, the survivors are a set that the repeated
\* removal of the globally weakest candidate in a conflicting pair leaves too.
C29_SameSurvivorsAsWeakestFirst ==
    scan_index >= 1 /\ scan_index > Len(lights_to_make_green)
        => lights_in(lights_to_make_green) \in weakest_first(traffic_lights, candidates)

(***************************************************************************)
(* C30: the eligibility loop under every iteration order of the keys of a  *)
(* conflict table (traffic_light_controller.rs, lines 56-83).              *)
(***************************************************************************)

\* the orders in which intersecting_lights.keys() can yield the keys S
key_orders(S) ==
    {keys \in [1..Cardinality(S) -> S] :
        \A a, b \in 1..Cardinality(S) : a # b => keys[a] # keys[b]}

\* variant: can_change is assigned at every key and the loop runs to the end
RECURSIVE keys_loop_LastKeyDecides(_, _, _, _, _, _, _)
keys_loop_LastKeyDecides(lights, q, i, keys, k, total, delay) ==
    IF k > Len(keys)
    THEN [can_change |-> TRUE, total_queue_length |-> total, max_delay |-> delay]
    ELSE LET rest == keys_loop_LastKeyDecides(lights, q, i, keys, k + 1,
                         IF peer(lights, keys[k]).state # "Red"
                         THEN total + queue_of(q, keys[k][1], keys[k][2]) ELSE total,
                         IF peer(lights, keys[k]).state # "Red"
                            /\ lights[i].intersecting_lights[keys[k]] > delay
                         THEN lights[i].intersecting_lights[keys[k]] ELSE delay)
         IN  IF k = Len(keys)
             THEN [rest EXCEPT !.can_change = can_change_to_red(peer(lights, keys[k]))]
             ELSE rest

\* the loop over intersecting_lights.keys() for light i (lines 60-75), the keys
\* coming in the order keys, from key number k on with total_queue_length =
\* total and max_delay = delay: the three locals after the loop. The loop is
\* left at the first key whose light cannot change to red (lines 62-65); the
\* queue and the duration of a key count if its light is not Red (lines 68-74)
RECURSIVE keys_loop(_, _, _, _, _, _, _)
keys_loop(lights, q, i, keys, k, total, delay) ==
    IF k > Len(keys)
    THEN [can_change |-> TRUE, total_queue_length |-> total, max_delay |-> delay]
    ELSE IF ~can_change_to_red(peer(lights, keys[k]))
    THEN [can_change |-> FALSE, total_queue_length |-> total, max_delay |-> delay]
    ELSE IF peer(lights, keys[k]).state # "Red"
    THEN keys_loop(lights, q, i, keys, k + 1,
                   total + queue_of(q, keys[k][1], keys[k][2]),
                   IF lights[i].intersecting_lights[keys[k]] > delay
                   THEN lights[i].intersecting_lights[keys[k]] ELSE delay)
    ELSE keys_loop(lights, q, i, keys, k + 1, total, delay)

\* what one pass of the eligibility loop pushes for light i when the keys of
\* its table come in the order keys (lines 53-83): one entry or none
pushed_entry(lights, q, lengths, i, keys) ==
    IF lengths[i] = 0 THEN <<>>
    ELSE LET after == keys_loop(lights, q, i, keys, 1, 0, 0)
         IN  IF lengths[i] <= after.total_queue_length \/ ~after.can_change
             THEN <<>>
             ELSE << <<i, lengths[i], after.max_delay>> >>

\* the entries of light i in the list
candidate_entry(list, i) == SelectSeq(list, LAMBDA e : e[1] = i)

\* C30: in a call of update, whatever the order in which the keys of a
\* movement's conflict table are iterated, the eligibility loop pushes the same
\* entry for the movement, with the same delay, or none: the candidate list,
\* and with it the movements armed and their delays, is a function of the
\* signal states, the timestamps, the queue counts and the tables.
C30_KeyOrderIsIrrelevant ==
    scan_index >= 1 =>
        \A list \in {candidates} :
        \A lengths \in {queue_lengths_of(traffic_lights, queue)} :
        \A i \in Lights :
            \A keys \in key_orders(DOMAIN traffic_lights[i].intersecting_lights) :
                pushed_entry(traffic_lights, queue, lengths, i, keys)
                    = candidate_entry(list, i)

\* a call of update in which the loop over the keys of a movement with waiting
\* cars ends with another total_queue_length in one order than in the other
\* (a key that cannot change to red comes first or last)
C30_Witness ==
    /\ scan_index >= 1
    /\ \E i \in Lights :
          /\ queue_lengths_of(traffic_lights, queue)[i] > 0
          /\ \E keys, other \in key_orders(DOMAIN traffic_lights[i].intersecting_lights) :
                keys_loop(traffic_lights, queue, i, keys, 1, 0, 0).total_queue_length
                    # keys_loop(traffic_lights, queue, i, other, 1, 0, 0).total_queue_length

(***************************************************************************)
(* C31: the clearance duration of calculate_red_clearance_time             *)
(* (traffic_light.rs, lines 194-219).                                      *)
(***************************************************************************)

\* C31: the clearance duration of the light is the one it was built with or,
\* for the direction of some car, max(0, clearance_time_raw - entry_time) +
\* yellow_duration; it is never smaller than yellow_duration.
C31_ClearanceNeverBelowYellow ==
    /\ \/ traffic_light.red_clearance_time = red_clearance_time
       \/ \E k \in DOMAIN Directions :
             traffic_light.red_clearance_time =
                 Max({0, clearance_time(Directions[k]) - traffic_light.entry_time})
                     + yellow_time
    /\ traffic_light.red_clearance_time >= yellow_time

(***************************************************************************)
(* C32: the conflict tables, built from the geometry.  The scan for the    *)
(* collision point and the entry time are those of calculate_entry_time    *)
(* (traffic_light.rs, lines 132-192); the paths, the footprint test and    *)
(* the loop over the pairs of movements are not part of the sources.       *)
(***************************************************************************)

\* the number of waypoints of a path
PathLen == 4

\* the distance between two consecutive waypoints
WaypointGap == 20

\* Car::calculate_waiting_point_index: the waypoint where a stopped car waits
calculate_waiting_point_index == 1

\* the geometries: for the moving car of one movement and the waiting car of
\* another, the pairs (i, j) of waypoint indexes at which Car::cars_intersect
\* holds; the footprints of two cars meet whichever of the two moves; a path
\* may meet itself; at most two meeting points per pair of paths
Geometries(S) ==
    LET points == (0..(PathLen - 1)) \X (0..(PathLen - 1))
        few    == {{}} \union {{pt, other} : pt \in points, other \in points}
        a      == CHOOSE m \in S : TRUE
        b      == CHOOSE m \in S : m # a
    IN  {[pr \in Movements \X Movements |->
            IF pr = <<a, b>> THEN cross
            ELSE IF pr = <<b, a>> THEN {<<pt[2], pt[1]>> : pt \in cross}
            ELSE IF pr = <<a, a>> THEN own_a
            ELSE IF pr = <<b, b>> THEN own_b
            ELSE {}] :
         cross \in few, own_a \in {{}, {<<1, 1>>}}, own_b \in {{}, {<<1, 1>>}}}

\* calculate_entry_time, lines 135-162: (moving_path_index, waiting_path_index)
\* after the two loops. Index 0 of either path is skipped (lines 142-144); the
\* inner loop stops at the first waypoint of the waiting path that meets, the
\* outer one at the first waypoint of the moving path that has one
first_meeting(meeting) ==
    LET hits == {pt \in meeting : pt[1] # 0 /\ pt[2] # 0}
    IN  IF hits = {} THEN <<0, 0>>
        ELSE LET i == Min({pt[1] : pt \in hits})
             IN  <<i, Min({pt[2] : pt \in {h \in hits : h[1] = i}})>>

\* calculate_entry_time, lines 170-183: the range waiting point ..= end_index
\* reduced from its first element, a waypoint index, by adding the length of
\* the segment after every further index; 0.0 for an empty range
distance_to_collision(waiting_path_index) ==
    LET end_index == Max({Min({waiting_path_index - 1, PathLen - 1}), 0})
    IN  IF end_index < calculate_waiting_point_index THEN 0
        ELSE calculate_waiting_point_index
                 + (end_index - calculate_waiting_point_index) * WaypointGap

\* calculate_entry_time, lines 185-191: sqrt(2 d / ACCELERATION) frames of
\* 1000 / 60 ms with ACCELERATION = 0.15, cut to whole milliseconds
entry_millis(distance) ==
    CHOOSE t \in 0..no_intersection_entry_time :
        27 * t * t <= 100000 * distance /\ 27 * (t + 1) * (t + 1) > 100000 * distance

\* variant: an entry time is replaced only by a larger one
calculate_entry_time_KeepsLarger(light, meeting) ==
    IF first_meeting(meeting)[1] = 0
    THEN [light EXCEPT !.entry_time = no_intersection_entry_time]
    ELSE [light EXCEPT !.entry_time =
             Max({@, entry_millis(distance_to_collision(first_meeting(meeting)[2]))})]

\* TrafficLight::calculate_entry_time for a moving and a waiting car whose
\* footprints meet at the waypoint pairs in meeting
calculate_entry_time(light, meeting) ==
    IF first_meeting(meeting)[1] = 0
    THEN [light EXCEPT !.entry_time = no_intersection_entry_time]
    ELSE [light EXCEPT !.entry_time =
             entry_millis(distance_to_collision(first_meeting(meeting)[2]))]

\* the movements in the order of generate_traffic_lights, pair number k of the
\* 12 x 12 pairs (waiting movement, moving movement)
waiting_of(k) == generate_traffic_lights[((k - 1) \div Len(generate_traffic_lights)) + 1]
moving_of(k) == generate_traffic_lights[((k - 1) % Len(generate_traffic_lights)) + 1]

\* variant: a movement is compared with itself too
is_other_movement_Any(waiting, moving) == TRUE

\* the builder looks at the other movements only
is_other_movement(waiting, moving) == moving # waiting

\* the pairs for which the builder stores an entry, in the order of the two
\* loops: M' is another movement than M and the scan finds a collision point
pairs_to_store(meets) ==
    SelectSeq([k \in 1..(Len(generate_traffic_lights) * Len(generate_traffic_lights)) |-> k],
              LAMBDA k : /\ is_other_movement(waiting_of(k), moving_of(k))
                         /\ first_meeting(meets[<<moving_of(k), waiting_of(k)>>])[1] # 0)

\* the builder from entry number n of todo on: the clearance duration is
\* computed with the light's own fields (entry_time, red_clearance_time) and
\* stored under M' in the table of M
RECURSIVE build_tables(_, _, _, _, _)
build_tables(light, meets, tables, todo, n) ==
    IF n > Len(todo)
    THEN [tables |-> tables, light |-> light]
    ELSE LET k     == todo[n]
             timed == calculate_red_clearance_time(
                          calculate_entry_time(light,
                              meets[<<moving_of(k), waiting_of(k)>>]),
                          moving_of(k)[2])
             table == tables[waiting_of(k)]
         IN  build_tables(timed, meets,
                 [tables EXCEPT ![waiting_of(k)] =
                     [key \in DOMAIN table \union {moving_of(k)} |->
                         IF key = moving_of(k) THEN timed.red_clearance_time
                         ELSE table[key]]],
                 todo, n + 1)

\* the tables of the twelve signals
tables_of(lights) ==
    [m \in Movements |-> lights[get_traffic_light(m[1], m[2])].intersecting_lights]

\* the tables are built again with the geometry of this run
Rebuild ==
    /\ \E built \in {build_tables(traffic_light, traffic.meets,
                                  [m \in Movements |-> <<>>],
                                  pairs_to_store(traffic.meets), 1)} :
          /\ answer' = <<"build_tables", built.tables>>
          /\ traffic_light' = built.light
    /\ UNCHANGED <<traffic_lights, queue, traffic, net_cars, aborted, paused, last_paused,
                   lights_to_make_green, scan_index, cars>>

BuildNext == Rebuild

\* the state after construction: the tables built once from the geometry of
\* the run
BuildInit ==
    /\ \E meets \in Geometries(PairArrivals) :
       \E built \in {build_tables(Light_new, meets, [m \in Movements |-> <<>>],
                                  pairs_to_store(meets), 1)} :
          /\ traffic = [arrivals |-> PairArrivals, steps |-> {YELLOW_TIME},
                        overflow_checks |-> TRUE, meets |-> meets]
          /\ traffic_lights =
                 [k \in Lights |->
                     TrafficLight_new(generate_traffic_lights[k][1],
                                      generate_traffic_lights[k][2],
                                      built.tables[generate_traffic_lights[k]])]
          /\ traffic_light = built.light
    /\ queue = generate_queue
    /\ net_cars = [m \in Movements |-> 0]
    /\ aborted = FALSE
    /\ paused = FALSE
    /\ last_paused = 0
    /\ answer = <<>>
    /\ lights_to_make_green = <<>>
    /\ scan_index = 0
    /\ cars = <<>>

BuildSpec == BuildInit /\ [][BuildNext]_vars

LoopRemoveCar ==
    /\ scan_index = 0
    /\ ~aborted
    /\ \E car \in traffic.arrivals :
           /\ \/ /\ queue[car] > 0
                 /\ queue' = [queue EXCEPT ![car] = @ - 1]
                 /\ UNCHANGED aborted
              \/ /\ queue[car] = 0
                 /\ aborted' = TRUE
                 /\ UNCHANGED queue
           /\ net_cars' = [net_cars EXCEPT ![car] = @ - 1]
    /\ UNCHANGED <<traffic_lights, traffic, traffic_light, paused, last_paused,
                   answer, lights_to_make_green, scan_index, cars>>

\* main.rs, lines 224-262: a frame calls update, then add_car for a spawned
\* car, then the update of every car, which may call remove_car
PassNext == LoopNext \/ LoopRemoveCar

\* three movements in a chain of conflicts
PassInit ==
    /\ traffic = ChainTraffic
    /\ new(ChainRelation, [pr \in ChainRelation |-> YELLOW_TIME])

PassSpec == PassInit /\ [][PassNext]_vars

\* C33: the counts change only between two calls of update, by add_car or
\* remove_car; so inside a call the count with which a movement was judged a
\* candidate (the snapshot queue_lengths) is the count self.queue returns when
\* the movement is summed as the competitor of another.
C33_OneSnapshotPerTick ==
    /\ [][queue' # queue => scan_index = 0 /\ scan_index' = 0]_vars
    /\ [](scan_index >= 1 =>
            /\ \A k \in 1..Len(lights_to_make_green) :
                  lights_to_make_green[k][2]
                      = queue_of(queue, traffic_lights[lights_to_make_green[k][1]].origin,
                                 traffic_lights[lights_to_make_green[k][1]].direction)
            /\ \A k \in 1..Len(lights_to_make_green) :
                  \E j \in 1..Len(candidates) : lights_to_make_green[k] = candidates[j])

\* update is inside its loop with a candidate that is not Red and in the
\* table of another candidate: its count was read once to judge it and once as
\* the competing count of the other
C33_Witness ==
    /\ scan_index >= 1
    /\ \E k, j \in 1..Len(lights_to_make_green) :
          /\ traffic_lights[lights_to_make_green[k][1]].state # "Red"
          /\ in_conflict(traffic_lights, lights_to_make_green, j, k)
          /\ lights_to_make_green[j][2] > lights_to_make_green[k][2]

(***************************************************************************)
(* C34: is_green and is_yellow of the controller                           *)
(* (traffic_light_controller.rs, lines 169-177).                           *)
(***************************************************************************)

\* the state of the signal of movement m
state_of(m) == traffic_lights[get_traffic_light(m[1], m[2])].state

conflicting_lights ==
    {pr \in Lights \X Lights :
        generate_traffic_lights[pr[2]]
            \in DOMAIN traffic_lights[pr[1]].intersecting_lights}

\* C35: two movements that conflict never both hold a request that is armed
\* and has not fired.
C35_NoTwoPendingRequestsInConflict ==
    \A pr \in conflicting_lights :
        ~(traffic_lights[pr[1]].armed /\ traffic_lights[pr[2]].armed)

\* a request has been pending over a tick while cars wait for a conflicting
\* movement, whose signal is Red and holds no request
C35_Witness ==
    \E pr \in conflicting_lights :
        /\ traffic_lights[pr[1]].armed
        /\ traffic_lights[pr[1]].armed_elapsed > 0
        /\ traffic_lights[pr[2]].state = "Red"
        /\ ~traffic_lights[pr[2]].armed
        /\ queue_lengths_of(traffic_lights, queue)[pr[2]]
               > queue_lengths_of(traffic_lights, queue)[pr[1]]

(***************************************************************************)
(* C36: the candidate with the longest queue                               *)
(* (traffic_light_controller.rs, lines 100-136).                           *)
(***************************************************************************)

\* the entries of list whose queue count is strictly greater than that of
\* every entry they are in conflict with
unbeaten(lights, list) ==
    {k \in 1..Len(list) :
        \A j \in 1..Len(list) :
            in_conflict(lights, list, k, j) \/ in_conflict(lights, list, j, k)
                => list[k][2] > list[j][2]}

\* the entries of list whose queue count is strictly the largest of the list
strictly_largest(list) ==
    {k \in 1..Len(list) : \A j \in 1..Len(list) : j # k => list[k][2] > list[j][2]}

\* this step is the exit of the resolution loop and the arming
is_loop_exit == scan_index >= 1 /\ scan_index' = 0

removed_from(list, rest) ==
    {k \in 1..Len(list) : list[k] \notin {rest[n] : n \in 1..Len(rest)}}

\* C37: when a pass of the resolution loop removes an entry, the entry the scan
\* is at was compared with another entry, never with itself; and if the two
\* have equal queue counts and equal delays, the scan is at the one that comes
\* first in the order of generate_traffic_lights (North, South, East, West;
\* Left, Straight, Right), which is kept, and the other one is removed.
C37_TieKeepsTheFirstMovement ==
    [][scan_index >= 1 /\ scan_index' >= 1
           /\ Len(lights_to_make_green') < Len(lights_to_make_green) =>
        \A list \in {lights_to_make_green} :
        \A other \in {Min({k \in 1..Len(list) :
                             in_conflict(traffic_lights, list, scan_index, k)})} :
            /\ other # scan_index
            /\ list[other][2] = list[scan_index][2] /\ list[other][3] = list[scan_index][3]
                  => /\ removed_from(list, lights_to_make_green') = {other}
                     /\ list[scan_index][1] < list[other][1]]_vars

\* the loop is left after two candidates in conflict, with equal queue counts
\* and equal delays, were compared: the first in the movement order is kept
C37_Witness ==
    /\ scan_index > Len(lights_to_make_green)
    /\ \E k, j \in 1..Len(candidates) :
          /\ k < j
          /\ in_conflict(traffic_lights, candidates, k, j)
          /\ candidates[k][2] = candidates[j][2]
          /\ candidates[k][3] = candidates[j][3]
          /\ Len(candidates) = 2
          /\ lights_to_make_green = << candidates[k] >>

----------------------------------------------------------------------------
(* C38 *)

\* the number of waypoints of a path (NUM_PATH_POINTS, 25 in car.rs: the
\* waypoints after the one that follows the entry are all alike)
NumPathPoints == 6

\* the number of cars on the road at a time
MaxCars == 1

\* Car::new; removals is history: the calls of remove_car this car has made;
\* moving stands for speed > 0.0
Car_new(origin, direction) ==
    [origin                     |-> origin,
     direction                  |-> direction,
     moving                     |-> FALSE,
     stopped                    |-> FALSE,
     automatically_stopped      |-> FALSE,
     path_index                 |-> 1,
     path_index_on_red_change   |-> <<>>,
     path_index_at_intersection |->
         (NumPathPoints \div 3) + (IF direction = "Straight" THEN 1 ELSE 0),
     finished                   |-> FALSE,
     through_intersection       |-> FALSE,
     removals                   |-> 0]

\* Car::past_intersection
past_intersection(car) == car.path_index > car.path_index_at_intersection

\* TrafficLight::is_yellow of traffic_light.rs
Light_is_yellow(light, origin) ==
    /\ ALLOW_GO_ON_YELLOW
    /\ light.past_green = origin
    /\ light.red_elapsed < (yellow_time * 3) \div 10

\* TrafficLight::is_green of traffic_light.rs; clear stands for the conjuncts of
\* short_green on which the two sides of the merge conflict in the file differ
\* (ALLOW_MOVING_ON_RED, last_intersection_obstruction, the head of the queue)
Light_is_green(light, origin, direction, clear) ==
    LET has_green   == light.green = origin
        has_yellow  == Light_is_yellow(light, origin)
        using_green == IF light.green # None THEN light.green ELSE light.past_green
        short_green == /\ (~light.should_switch \/ light.red_elapsed < yellow_time)
                       /\ direction # "Left"
                       /\ using_green = opposite(origin)
                       /\ clear
    IN  has_green \/ has_yellow \/ short_green

\* Car::stop_for_traffic_light
stop_for_traffic_light(car, light, clear) ==
    IF car.through_intersection
    THEN [car EXCEPT !.stopped = FALSE]
    ELSE IF light.green = None /\ ~Light_is_green(light, car.origin, car.direction, clear)
    THEN LET marked == IF car.path_index_on_red_change = <<>>
                       THEN [car EXCEPT !.path_index_on_red_change = <<car.path_index>>]
                       ELSE car
             halted == IF car.path_index = car.path_index_at_intersection
                       THEN [marked EXCEPT !.stopped = TRUE]
                       ELSE marked
         IN  IF light.past_green # None
             THEN IF /\ light.past_green = car.origin
                     /\ marked.path_index_on_red_change[1] >= car.path_index_at_intersection
                  THEN [marked EXCEPT !.through_intersection = TRUE, !.stopped = FALSE]
                  ELSE halted
             ELSE halted
    ELSE LET can_go ==
                 \/ Light_is_green(light, car.origin, car.direction, clear)
                 \/ car.path_index # car.path_index_at_intersection
                 \/ /\ car.direction = "Right"
                    /\ Light_is_green(light, left(car.origin), car.direction, clear)
         IN  [car EXCEPT !.path_index_on_red_change = <<>>, !.stopped = ~can_go]

\* Car::automatically_stop; near: the closest car ahead is nearer than two
\* car widths
automatically_stop(car, near) ==
    IF ~car.stopped /\ near
    THEN [car EXCEPT !.stopped = TRUE, !.automatically_stopped = TRUE]
    ELSE IF car.stopped /\ car.automatically_stopped /\ ~near
    THEN [car EXCEPT !.stopped = FALSE, !.automatically_stopped = FALSE]
    ELSE car

\* what a call of Car::update depends on besides the car, the light and the
\* result of calculate_entry_time: the positions of the cars and the speed
CarInputs == [clear : BOOLEAN, near : BOOLEAN, rolls : BOOLEAN, reaches : BOOLEAN]

\* Car::update: a stopped car loses speed and may still roll (rolls); a car
\* with speed may reach the waypoint it heads for (reaches). is_green unwraps
\* past_green, remove_car removes the head of the queue: both may panic
Car_update(car, light, entry, in) ==
    LET passes  == ~car.through_intersection /\ past_intersection(car)
        entered == IF passes
                   THEN [car EXCEPT !.through_intersection = TRUE, !.removals = @ + 1]
                   ELSE car
        panics  == \/ passes /\ light.queue[car.origin] = <<>>
                   \/ ~entered.through_intersection
                         /\ light.green = None /\ light.past_green = None
        removed == IF passes /\ ~panics
                   THEN Light_remove_car(light, car.origin, car.direction, entry)
                   ELSE light
        halted  == automatically_stop(
                       stop_for_traffic_light(entered, removed, in.clear), in.near)
        driven  == [halted EXCEPT !.moving = ~halted.stopped \/ (car.moving /\ in.rolls)]
        at      == driven.path_index + 1
        moved   == IF driven.moving /\ in.reaches
                   THEN IF at >= NumPathPoints
                        THEN [driven EXCEPT !.path_index = 0, !.finished = TRUE]
                        ELSE [driven EXCEPT !.path_index = at]
                   ELSE driven
    IN  IF panics
        THEN [car |-> car, light |-> light, aborted |-> TRUE]
        ELSE [car |-> moved, light |-> removed, aborted |-> FALSE]

\* Car::get_distance_to_closest_car: only another car of the same origin, among
\* the cars at the start of the frame (cars_clone), is at a distance
has_car_ahead(k, origin) ==
    \E j \in DOMAIN cars : j # k /\ cars[j].origin = origin

\* main.rs: cars.iter_mut().for_each(|car| car.update(..)) from the k-th car on:
\* the states the loop may end in
RECURSIVE update_cars(_, _, _)
update_cars(k, entry, state) ==
    IF k > Len(state.cars) \/ state.aborted
    THEN {state}
    ELSE UNION {update_cars(k + 1, entry,
                            [cars    |-> [state.cars EXCEPT ![k] = out.car],
                             light   |-> out.light,
                             aborted |-> out.aborted]) :
                   out \in {Car_update(state.cars[k], state.light, entry, in) :
                               in \in {i \in CarInputs :
                                          /\ i.near => has_car_ahead(k, state.cars[k].origin)
                                          /\ i.rolls => state.cars[k].moving}}}

\* main.rs: for i in (0..cars.len()).rev() { if cars[i].finished { cars.remove(i) } }
remove_finished(list) == SelectSeq(list, LAMBDA car : ~car.finished)

\* what the spawn timer of main.rs may do in a frame: nothing, or a new car
Spawns == {<<>>} \union {<<car>> : car \in traffic.arrivals}

\* main.rs: one frame that is not paused: the light is updated, a car may be
\* spawned, every car is updated, the finished cars are dropped
Frame ==
    /\ ~aborted
    /\ \E dt \in traffic.steps : \E entry \in EntryTimes : \E spawn \in Spawns :
          /\ spawn # <<>> =>
                /\ Len(cars) < MaxCars
                /\ Len(traffic_light.queue[spawn[1][1]]) < MaxQueue
          /\ \E updated \in {Light_update(Light_pass_time(traffic_light, dt),
                                          traffic.order, entry)} :
             \E spawned \in {IF spawn = <<>>
                             THEN [cars |-> cars, light |-> updated, aborted |-> FALSE]
                             ELSE [cars    |-> Append(cars, Car_new(spawn[1][1], spawn[1][2])),
                                   light   |-> Light_add_car(updated, spawn[1]),
                                   aborted |-> FALSE]} :
             \E next \in update_cars(1, entry, spawned) :
                /\ cars' = remove_finished(next.cars)
                /\ traffic_light' = next.light
                /\ aborted' = next.aborted
    /\ UNCHANGED <<traffic_lights, queue, traffic, net_cars, paused, last_paused, answer,
                   lights_to_make_green, scan_index>>

CarNext == Frame

\* cars from two origins; frames a yellow time, or what is left of a minimum
\* green time after it, apart
CarTraffic ==
    [arrivals |-> {SimplifiedCar("North", "Straight"), SimplifiedCar("East", "Left")},
     steps    |-> {yellow_time, minimum_green_time - yellow_time},
     order    |-> Origins]

CarInit ==
    /\ traffic = CarTraffic
    /\ new({}, <<>>)

CarSpec == CarInit /\ [][CarNext]_vars

\* the cars of origin o on the road that meet P
cars_of(o, P(_)) == Cardinality({k \in DOMAIN cars : cars[k].origin = o /\ P(cars[k])})

\* C38: every car calls remove_car exactly once, in the frame after the one in
\* which it passed its intersection-entry waypoint; so between two frames the
\* queue of an origin holds an entry for every car of the origin that has not
\* passed its entry waypoint, and for no car that passed it before the last
\* frame, cars let through during red clearance included.
C38_QueueCountsCarsBeforeEntry ==
    /\ \A k \in DOMAIN cars :
          /\ cars[k].removals <= 1
          /\ cars[k].path_index > cars[k].path_index_at_intersection + 1
                => cars[k].removals = 1
    /\ ~aborted =>
          \A o \in OriginSet :
              /\ Len(traffic_light.queue[o])
                    >= cars_of(o, LAMBDA car : ~past_intersection(car))
              /\ Len(traffic_light.queue[o])
                    <= cars_of(o, LAMBDA car :
                           car.path_index <= car.path_index_at_intersection + 1)

----------------------------------------------------------------------------
(* C39 *)

\* car.rs, Car::update: a car that is let go by is_green passes the entry
\* waypoint and calls remove_car
Depart(car) ==
    /\ ~paused
    /\ queue[car] > 0
    /\ is_green(car[1], car[2])
    /\ remove_car(car)

\* a car of a Green movement leaves
GreenDepart(car) == state_of(car) = "Green" /\ Depart(car)

DrainDepart == \E car \in traffic.arrivals : Depart(car)

DrainNext == Tick \/ AddCar \/ DrainDepart

\* the three movements of the chain, of which the middle one conflicts with the
\* two others; ticks a yellow duration apart
DrainInit ==
    /\ traffic = ChainTraffic
    /\ new(ChainRelation, [pr \in ChainRelation |-> YELLOW_TIME])

\* the render loop calls update in every frame (main.rs:224-227), and the first
\* car of a movement that stays Green drives on (car.rs:227-241)
DrainSpec ==
    /\ DrainInit
    /\ [][DrainNext]_vars
    /\ WF_vars(Tick)
    /\ \A car \in ChainArrivals : WF_vars(GreenDepart(car))

\* a step in which add_car is called
is_add_car == \E car \in Movements : queue'[car] > queue[car]

\* C39 (no starvation once arrivals stop): if from some point on add_car is not
\* called any more, while update keeps being called and the cars of Green
\* movements keep leaving, then every movement is again and again either
\* without cars or Green: no movement with cars waits for ever.
C39_NoStarvationOnceArrivalsStop ==
    \A m \in ChainArrivals :
        <>[][~is_add_car]_vars => []<>(queue[m] = 0 \/ state_of(m) = "Green")

\* the middle movement of the chain is Green with cars, while both movements it
\* conflicts with are Red with cars waiting
C39_Witness ==
    /\ state_of(SimplifiedCar("East", "Straight")) = "Green"
    /\ \A m \in ChainArrivals : queue[m] > 0
    /\ state_of(SimplifiedCar("North", "Right")) = "Red"
    /\ state_of(SimplifiedCar("South", "Straight")) = "Red"

====
